---- MODULE Spec2Model ----
(***************************************************************************)
(* Model of the billfrog usage-metering pipeline: the /track and           *)
(* /retry/:id handlers (routes), the safety filters, the response quality  *)
(* classifier, the token counter, the pricing routes and the SQLite        *)
(* store they share.                                                       *)
(*                                                                         *)
(* Conventions                                                             *)
(*   - a text (prompt, response) is a sequence of one-character strings;   *)
(*     the empty sequence is the empty string and NullText is a JavaScript *)
(*     null/undefined text;                                                *)
(*   - an absent string field (user_id, api_key, ...) is NULL;             *)
(*   - money is counted in nano-dollars, so the prices per 1000 tokens of  *)
(*     the model are multiples of 1000 and "/ 1000" is exact;              *)
(*   - time is counted in seconds; a timestamp string is the sequence of   *)
(*     its characters' codes after the year-month prefix.                  *)
(***************************************************************************)
EXTENDS Integers, Sequences, FiniteSets, TLC

\* ------------------------------------------------------------------ bounds
MaxHandlers == 2
MaxLogs == 1
MaxClock == 1
MaxPricingRows == 9
MaxFilters == 3
MaxRateLogs == 3
MaxOpsLogs == 2
MaxTextLen == 7
MaxClients == 2

\* ------------------------------------------------------- absent values
NULL == "NULL"
NullText == <<"NULL">>

\* ------------------------------------------------------------ text helpers
Digits == {"0", "1", "2", "3", "4", "5", "6", "7", "8", "9"}
LowerLetters == {"a", "b", "c", "d", "e", "f", "g", "h", "i", "j", "k", "l", "m",
                 "n", "o", "p", "q", "r", "s", "t", "u", "v", "w", "x", "y", "z"}
UpperLetters == {"A", "H", "I"}

IsSpace(c) == c = " "
IsDigit(c) == c \in Digits
IsWordChar(c) == c \in (Digits \cup LowerLetters \cup UpperLetters \cup {"_"})

toLowerCaseChar(c) ==
    CASE c = "A" -> "a" [] c = "H" -> "h" [] c = "I" -> "i" [] OTHER -> c
toLowerCase(t) == [i \in 1..Len(t) |-> toLowerCaseChar(t[i])]

\* s occurs in t starting at position i
MatchAt(t, s, i) ==
    /\ i >= 1
    /\ i + Len(s) - 1 <= Len(t)
    /\ \A k \in 1..Len(s) : t[i + k - 1] = s[k]

\* String.prototype.includes
includes(t, s) == \E i \in 1..(Len(t) + 1) : MatchAt(t, s, i)

\* regex /s/i for a literal s given in lower case
includesIgnoreCase(t, s) == includes(toLowerCase(t), s)

\* regex /\bs\b/i for a literal word s given in lower case
WordBoundaryAt(t, i) ==
    \* boundary between position i-1 and position i
    LET before == i >= 2 /\ i - 1 <= Len(t) /\ IsWordChar(t[i - 1])
        after == i >= 1 /\ i <= Len(t) /\ IsWordChar(t[i])
    IN before # after
includesWord(t, s) ==
    \E i \in 1..(Len(t) + 1) :
        /\ MatchAt(toLowerCase(t), s, i)
        /\ WordBoundaryAt(t, i)
        /\ WordBoundaryAt(t, i + Len(s))

\* number of maximal runs of characters satisfying / not satisfying IsSpace
SpaceRuns(t) ==
    Cardinality({i \in 1..Len(t) : IsSpace(t[i]) /\ (i = 1 \/ ~IsSpace(t[i - 1]))})
WordRuns(t) ==
    Cardinality({i \in 1..Len(t) : ~IsSpace(t[i]) /\ (i = 1 \/ IsSpace(t[i - 1]))})

\* Math.ceil(n * (tenths / 10)) for the multipliers 1.3, 1.2, 1.1 and
\* Math.ceil(n * 1.25) = ceil(n * 125 / 100)
CeilMul(n, num, den) == (n * num + den - 1) \div den

\* -------------------------------------------- utils/token-counter.js
TOKEN_MULTIPLIERS(provider) ==
    CASE provider = "openai" -> <<13, 10>>
      [] provider = "anthropic" -> <<12, 10>>
      [] provider = "google" -> <<11, 10>>
      [] OTHER -> <<125, 100>>

countTokens_Words(text, provider) ==
    IF text = NullText \/ text = <<>> THEN 0 ELSE WordRuns(text)

\* lines 12-25
countTokens(text, provider) ==
    IF text = NullText \/ text = <<>>
    THEN 0
    ELSE LET wordCount == WordRuns(text)
             multiplier == TOKEN_MULTIPLIERS(provider)
         IN CeilMul(wordCount, multiplier[1], multiplier[2])

\* services/safety-filters.js: text.split(/\s+/).length * 1.3, rounded up
estimateTokenCount(text) ==
    CeilMul(SpaceRuns(text) + 1, 13, 10)

\* services/ai-providers.js, estimateTokenCount(text, provider):
\* text.split(/\s+/).length times the factor of the provider's case
providerEstimateTokenCount(text, provider) ==
    LET wordCount == SpaceRuns(text) + 1
    IN CASE provider = "openai" -> CeilMul(wordCount, 13, 10)
         [] provider = "anthropic" -> CeilMul(wordCount, 12, 10)
         [] provider = "google" -> CeilMul(wordCount, 11, 10)
         [] OTHER -> CeilMul(wordCount, 125, 100)

\* -------------------------------- services/safety-filters.js: quality
Punct == {".", "!", "?"}

\* the literal phrases of the regular expressions, in lower case
HonestPhrases ==
    { <<"i", " ", "d", "o", "n", "'", "t", " ", "h", "a", "v", "e", " ", "a", "c", "c", "e", "s", "s", " ", "t", "o">>,
      <<"i", " ", "c", "a", "n", "n", "o", "t", " ", "b", "r", "o", "w", "s", "e", " ", "t", "h", "e", " ", "i", "n", "t", "e", "r", "n", "e", "t">>,
      <<"a", "s", " ", "a", "n", " ", "a", "i", ",", " ", "i", " ", "d", "o", "n", "'", "t", " ", "h", "a", "v", "e">>,
      <<"i", "'", "m", " ", "n", "o", "t", " ", "a", "b", "l", "e", " ", "t", "o", " ", "a", "c", "c", "e", "s", "s">> }
IncompleteMarkers ==
    { <<"[", "i", "n", "c", "o", "m", "p", "l", "e", "t", "e", "]">>,
      <<"[", "t", "r", "u", "n", "c", "a", "t", "e", "d", "]">>,
      <<"[", "c", "u", "t", " ", "o", "f", "f", "]">> }
InappropriateWords ==
    { <<"h", "a", "t", "e">>, <<"r", "a", "c", "i", "s", "t">>, <<"s", "e", "x", "i", "s", "t">>, <<"d", "i", "s", "c", "r", "i", "m", "i", "n", "a", "t", "o", "r", "y">>,
      <<"v", "i", "o", "l", "e", "n", "c", "e">>, <<"v", "i", "o", "l", "e", "n", "t">>, <<"k", "i", "l", "l">>, <<"m", "u", "r", "d", "e", "r">>,
      <<"i", "l", "l", "e", "g", "a", "l">>, <<"c", "r", "i", "m", "e">>, <<"c", "r", "i", "m", "i", "n", "a", "l">> }

\* length of the maximal run of digits of t that starts at position i
RECURSIVE DigitRun(_, _)
DigitRun(t, i) ==
    IF i <= Len(t) /\ IsDigit(t[i]) THEN 1 + DigitRun(t, i + 1) ELSE 0

AllDigits(t, from, to) == to <= Len(t) /\ \A k \in from..to : IsDigit(t[k])
CharAt(t, i, c) == i >= 1 /\ i <= Len(t) /\ t[i] = c

\* length of the match of /\d{4}-\d{2}-\d{2}/ at position i, 0 when none
DateMatchLen(t, i) ==
    IF /\ AllDigits(t, i, i + 3) /\ CharAt(t, i + 4, "-")
       /\ AllDigits(t, i + 5, i + 6) /\ CharAt(t, i + 7, "-")
       /\ AllDigits(t, i + 8, i + 9)
    THEN 10 ELSE 0

\* length of the match of /\$\d+\.\d{2}/ at position i, 0 when none
PriceMatchLen(t, i) ==
    LET n == DigitRun(t, i + 1)
    IN IF /\ CharAt(t, i, "$") /\ n >= 1 /\ CharAt(t, i + 1 + n, ".")
          /\ AllDigits(t, i + 2 + n, i + 3 + n)
       THEN n + 4 ELSE 0

\* length of the match of /\b\d{3}-\d{3}-\d{4}\b/ at position i, 0 when none
PhoneMatchLen(t, i) ==
    IF /\ AllDigits(t, i, i + 2) /\ CharAt(t, i + 3, "-")
       /\ AllDigits(t, i + 4, i + 6) /\ CharAt(t, i + 7, "-")
       /\ AllDigits(t, i + 8, i + 11)
       /\ WordBoundaryAt(t, i) /\ WordBoundaryAt(t, i + 12)
    THEN 12 ELSE 0

\* String.prototype.match with a global regular expression: the number of
\* non-overlapping matches found scanning from the left; kind selects the
\* expression
MatchLen(kind, t, i) ==
    CASE kind = "date" -> DateMatchLen(t, i)
      [] kind = "price" -> PriceMatchLen(t, i)
      [] kind = "phone" -> PhoneMatchLen(t, i)

RECURSIVE CountMatches(_, _, _)
CountMatches(kind, t, i) ==
    IF i > Len(t) THEN 0
    ELSE IF MatchLen(kind, t, i) > 0
         THEN 1 + CountMatches(kind, t, i + MatchLen(kind, t, i))
         ELSE CountMatches(kind, t, i + 1)

checkForHallucination(prompt, response) ==
    IF Len(response) > Len(prompt) * 5 THEN TRUE
    ELSE IF \E p \in HonestPhrases : includesIgnoreCase(response, p) THEN FALSE
    ELSE LET suspiciousCount == CountMatches("date", response, 1)
                                 + CountMatches("price", response, 1)
                                 + CountMatches("phone", response, 1)
         IN suspiciousCount > 3

\* String.prototype.trim
RECURSIVE trim(_)
trim(t) ==
    IF t = <<>> THEN t
    ELSE IF IsSpace(t[1]) THEN trim(Tail(t))
    ELSE IF IsSpace(t[Len(t)]) THEN trim(SubSeq(t, 1, Len(t) - 1))
    ELSE t

\* response.split(/[.!?]+/).filter(s => s.trim().length > 0): the pieces are
\* the maximal runs of characters other than . ! ? ; each is given by its
\* first and last position
SentenceSpans(t) ==
    { <<i, j>> \in (1..Len(t)) \X (1..Len(t)) :
        /\ i <= j
        /\ \A k \in i..j : t[k] \notin Punct
        /\ (i = 1 \/ t[i - 1] \in Punct)
        /\ (j = Len(t) \/ t[j + 1] \in Punct)
        /\ trim(SubSeq(t, i, j)) # <<>> }

checkForRepetition(response) ==
    LET sentences == SentenceSpans(response)
        uniqueSentences ==
            { toLowerCase(trim(SubSeq(response, s[1], s[2]))) : s \in sentences }
    IN /\ Cardinality(sentences) > 3
       /\ Cardinality(uniqueSentences) * 10 < Cardinality(sentences) * 7

checkForIncompleteResponse(response) ==
    \/ (Len(response) >= 3 /\ MatchAt(response, <<".", ".", ".">>, Len(response) - 2))
    \/ \E m \in IncompleteMarkers : includesIgnoreCase(response, m)

checkForInappropriateContent(response) ==
    \E w \in InappropriateWords : includesWord(response, w)

\* the flags checkResponseQuality returns, in the order it pushes them;
\* the caller handles a null response, on which response.length throws
checkResponseQuality(prompt, response) ==
    (IF checkForHallucination(prompt, response)
        THEN <<"potential_hallucination">> ELSE <<>>)
    \o (IF checkForRepetition(response) THEN <<"repetitive_response">> ELSE <<>>)
    \o (IF checkForIncompleteResponse(response) THEN <<"incomplete_response">> ELSE <<>>)
    \o (IF checkForInappropriateContent(response)
        THEN <<"inappropriate_content">> ELSE <<>>)

checkResponseQualityThrows(prompt, response) == response = NullText

\* ----------------------------------------------------------------- time
\* the instant of clock value i, in seconds since the start of day 1 of the
\* month: the model's clock starts half a minute before midnight UTC and a
\* tick is 30 seconds
SecondsPerDay == 24 * 60 * 60
TickSeconds == 30
TimeAt(i) == SecondsPerDay - TickSeconds + TickSeconds * i

Code(c) ==
    CASE c = " " -> 32 [] c = "." -> 46 [] c = ":" -> 58 [] c = "T" -> 84
      [] c = "Z" -> 90
TwoDigits(n) == <<48 + (n \div 10), 48 + (n % 10)>>
DateChars(t) == TwoDigits(t \div SecondsPerDay + 1)
ClockChars(t) ==
    LET s == t % SecondsPerDay
    IN TwoDigits(s \div 3600) \o <<Code(":")>> \o TwoDigits((s % 3600) \div 60)
       \o <<Code(":")>> \o TwoDigits(s % 60)

\* SQLite CURRENT_TIMESTAMP, 'YYYY-MM-DD HH:MM:SS', after the 'YYYY-MM-' prefix
CURRENT_TIMESTAMP(t) == DateChars(t) \o <<Code(" ")>> \o ClockChars(t)
\* Date.prototype.toISOString, 'YYYY-MM-DDTHH:MM:SS.sssZ', after the same prefix
toISOString(t) ==
    DateChars(t) \o <<Code("T")>> \o ClockChars(t)
    \o <<Code("."), 48, 48, 48, Code("Z")>>
\* toISOString().split('T')[0]
IsoDate(t) == DateChars(t)
\* SQLite DATE(created_at)
SqlDate(created_at) == SubSeq(created_at, 1, 2)

\* SQLite's comparison of two TEXT values (BINARY collation): a >= b
RECURSIVE TextGE(_, _)
TextGE(a, b) ==
    IF b = <<>> THEN TRUE
    ELSE IF a = <<>> THEN FALSE
    ELSE IF a[1] # b[1] THEN a[1] > b[1]
    ELSE TextGE(Tail(a), Tail(b))

\* ------------------------------------------------------------- database
\* insertDefaultData: the default pricing, in nano-dollars per 1000 tokens
defaultPricing ==
    << [provider |-> "openai", model_name |-> "gpt-4", input_cost |-> 30000000, output_cost |-> 60000000],
       [provider |-> "openai", model_name |-> "gpt-4-turbo", input_cost |-> 10000000, output_cost |-> 30000000],
       [provider |-> "openai", model_name |-> "gpt-3.5-turbo", input_cost |-> 1000000, output_cost |-> 2000000],
       [provider |-> "anthropic", model_name |-> "claude-3-opus", input_cost |-> 15000000, output_cost |-> 75000000],
       [provider |-> "anthropic", model_name |-> "claude-3-sonnet", input_cost |-> 3000000, output_cost |-> 15000000],
       [provider |-> "anthropic", model_name |-> "claude-3-haiku", input_cost |-> 250000, output_cost |-> 1250000],
       [provider |-> "google", model_name |-> "gemini-pro", input_cost |-> 250000, output_cost |-> 500000],
       [provider |-> "google", model_name |-> "gemini-pro-vision", input_cost |-> 250000, output_cost |-> 500000] >>

\* a row of model_pricing as insertModelPricing writes it at instant t
PricingRow(pricingData, t) ==
    [provider |-> pricingData.provider,
     model_name |-> pricingData.model_name,
     input_cost_per_1k_tokens |-> pricingData.input_cost,
     output_cost_per_1k_tokens |-> pricingData.output_cost,
     effective_date |-> CURRENT_TIMESTAMP(t),
     is_active |-> TRUE]

\* the rules object of a filter; a key the JSON leaves out reads as
\* undefined, which every test of the filters treats as 0 / empty
NoRules ==
    [max_calls_per_minute |-> 0, max_calls_per_hour |-> 0, max_calls_per_day |-> 0,
     max_cost_per_call |-> 0, daily_spending_limit |-> 0,
     blocked_keywords |-> <<>>, max_prompt_length |-> 0,
     check_pii |-> FALSE, block_pii |-> FALSE,
     allowed_models |-> {}, blocked_models |-> {}]

\* max_cost_per_call: 1.0, one dollar in the model's unit (1e-9 dollar)
OneDollar == 1000000000

defaultFilters ==
    << [name |-> "Cost Alert", filter_type |-> "cost",
        rules |-> [NoRules EXCEPT !.max_cost_per_call = OneDollar]],
       [name |-> "Rate Limit", filter_type |-> "rate",
        rules |-> [NoRules EXCEPT !.max_calls_per_hour = 1000]] >>

\* a row of safety_filters as insertSafetyFilter writes it
FilterRow(filterData) ==
    [name |-> filterData.name, filter_type |-> filterData.filter_type,
     rules |-> filterData.rules, is_active |-> TRUE]

\* getSafetyFilters: the active rows, in table order
getSafetyFilters(filters) == SelectSeq(filters, LAMBDA f : f.is_active)

\* getModelPricing: the active rows of the pair, newest effective_date first,
\* LIMIT 1.  SQL leaves the order of rows with equal effective_date open, so
\* the result is any row of the newest date; the empty set is "no row".
getModelPricing(pricing, provider, modelName) ==
    LET rows == { i \in 1..Len(pricing) :
                    /\ pricing[i].provider = provider
                    /\ pricing[i].model_name = modelName
                    /\ pricing[i].is_active }
    IN { i \in rows :
           \A j \in rows : TextGE(pricing[i].effective_date, pricing[j].effective_date) }

\* ------------------------------------- services/safety-filters.js: filters
Flag(k, v) == [k |-> k, v |-> v]

\* /\b\d{3}-\d{2}-\d{4}\b/
SsnAt(t, i) ==
    /\ AllDigits(t, i, i + 2) /\ CharAt(t, i + 3, "-")
    /\ AllDigits(t, i + 4, i + 5) /\ CharAt(t, i + 6, "-")
    /\ AllDigits(t, i + 7, i + 10)
    /\ WordBoundaryAt(t, i) /\ WordBoundaryAt(t, i + 11)

\* /\b\d{4}[\s-]?\d{4}[\s-]?\d{4}[\s-]?\d{4}\b/ ; s1, s2, s3 are the lengths
\* (0 or 1) of the three optional separators
CardAt(t, i) ==
    \E s1 \in 0..1, s2 \in 0..1, s3 \in 0..1 :
        LET b == i + 4 + s1
            c == b + 4 + s2
            d == c + 4 + s3
            Sep(k) == k <= Len(t) /\ t[k] \in {" ", "-"}
        IN /\ AllDigits(t, i, i + 3) /\ (s1 = 1 => Sep(i + 4))
           /\ AllDigits(t, b, b + 3) /\ (s2 = 1 => Sep(b + 4))
           /\ AllDigits(t, c, c + 3) /\ (s3 = 1 => Sep(c + 4))
           /\ AllDigits(t, d, d + 3)
           /\ WordBoundaryAt(t, i) /\ WordBoundaryAt(t, d + 4)

\* /\b[A-Za-z0-9._%+-]+@[A-Za-z0-9.-]+\.[A-Z|a-z]{2,}\b/
IsLetter(c) == c \in (LowerLetters \cup UpperLetters)
EmailAt(t, i) ==
    \E at \in (i + 1)..Len(t), dot \in (i + 3)..Len(t), e \in (i + 5)..Len(t) :
        /\ at + 1 < dot /\ dot + 2 <= e
        /\ \A k \in i..(at - 1) :
              IsLetter(t[k]) \/ IsDigit(t[k]) \/ t[k] \in {".", "_", "%", "+", "-"}
        /\ t[at] = "@"
        /\ \A k \in (at + 1)..(dot - 1) :
              IsLetter(t[k]) \/ IsDigit(t[k]) \/ t[k] \in {".", "-"}
        /\ t[dot] = "."
        /\ \A k \in (dot + 1)..e : IsLetter(t[k]) \/ t[k] = "|"
        /\ WordBoundaryAt(t, i) /\ WordBoundaryAt(t, e + 1)

piiPatterns(t) ==
    \E i \in 1..Len(t) :
        SsnAt(t, i) \/ CardAt(t, i) \/ EmailAt(t, i) \/ PhoneMatchLen(t, i) > 0

\* index of the first blocked keyword the prompt contains, 0 when none
FirstBlocked_CaseSensitive(words, prompt) ==
    LET hits == { k \in 1..Len(words) : includes(prompt, words[k]) }
    IN IF hits = {} THEN 0 ELSE CHOOSE k \in hits : \A h \in hits : k <= h

FirstBlocked(words, prompt) ==
    LET hits == { k \in 1..Len(words) :
                    includes(toLowerCase(prompt), toLowerCase(words[k])) }
    IN IF hits = {} THEN 0 ELSE CHOOSE k \in hits : \A h \in hits : k <= h

applyContentFilter(rules, requestData) ==
    LET prompt == requestData.prompt
        word == FirstBlocked(rules.blocked_keywords, prompt)
        tooLong == rules.max_prompt_length > 0 /\ Len(prompt) > rules.max_prompt_length
        pii == rules.check_pii /\ piiPatterns(prompt)
    IN [allowed |-> ~(word > 0 \/ tooLong \/ (pii /\ rules.block_pii)),
        reason |-> IF pii /\ rules.block_pii THEN <<"Contains potential PII">>
                   ELSE IF tooLong THEN <<"Prompt too long">>
                   ELSE IF word > 0 THEN <<"Contains blocked keyword">>
                   ELSE <<>>,
        hasFlags |-> TRUE,
        flags |-> (IF word > 0 THEN {Flag("blocked_keyword", word)} ELSE {})
                  \cup (IF tooLong THEN {Flag("prompt_too_long", 1)} ELSE {})
                  \cup (IF pii THEN {Flag("potential_pii", 1)} ELSE {})]

\* the rows of usage_logs a "user_id = ?" clause selects: a NULL parameter
\* matches no row
RowsOfUser(logs, user_id) ==
    { i \in 1..Len(logs) : user_id # NULL /\ logs[i].user_id = user_id }

\* SUM(total_cost) over a set of rows
RECURSIVE SumCost(_, _)
SumCost(logs, rows) ==
    IF rows = {} THEN 0
    ELSE LET i == CHOOSE r \in rows : TRUE
         IN logs[i].total_cost + SumCost(logs, rows \ {i})

\* p is the row getModelPricing returned, 0 when it returned none
applyCostFilter(rules, requestData, p, logs, pricing, t) ==
    IF p = 0
    THEN [allowed |-> TRUE, reason |-> <<>>, hasFlags |-> TRUE,
          flags |-> {Flag("no_pricing_info", 1)}]
    ELSE
    LET estimatedTokens == estimateTokenCount(requestData.prompt)
        estimatedCost == (estimatedTokens * pricing[p].input_cost_per_1k_tokens) \div 1000
        tooHigh == rules.max_cost_per_call > 0 /\ estimatedCost > rules.max_cost_per_call
        today == IsoDate(t)
        currentSpending ==
            SumCost(logs, { i \in RowsOfUser(logs, requestData.user_id) :
                              SqlDate(logs[i].created_at) = today })
        overDaily == /\ rules.daily_spending_limit > 0
                     /\ currentSpending + estimatedCost > rules.daily_spending_limit
    IN [allowed |-> ~(tooHigh \/ overDaily),
        reason |-> IF overDaily THEN <<"Daily spending limit exceeded">>
                   ELSE IF tooHigh THEN <<"Estimated cost too high">>
                   ELSE <<>>,
        hasFlags |-> TRUE,
        flags |-> (IF tooHigh THEN {Flag("cost_too_high", 1)} ELSE {})
                  \cup (IF overDaily THEN {Flag("daily_limit_exceeded", 1)} ELSE {})
                  \cup {Flag("estimated_cost", estimatedCost)}]

\* COUNT(*) ... WHERE created_at >= ? AND user_id = ?, the parameter being
\* the toISOString() of the instant `since`
CountSince(logs, user_id, since) ==
    Cardinality({ i \in RowsOfUser(logs, user_id) :
                    TextGE(logs[i].created_at, toISOString(since)) })

\* COUNT(*) ... WHERE DATE(created_at) = ? AND user_id = ?
CountOnDate(logs, user_id, date) ==
    Cardinality({ i \in RowsOfUser(logs, user_id) : SqlDate(logs[i].created_at) = date })

applyRateFilter(rules, requestData, logs, t) ==
    LET user_id == requestData.user_id
        perMinute == /\ rules.max_calls_per_minute > 0
                     /\ CountSince(logs, user_id, t - 60) >= rules.max_calls_per_minute
        perHour == /\ rules.max_calls_per_hour > 0
                   /\ CountSince(logs, user_id, t - 60 * 60) >= rules.max_calls_per_hour
        perDay == /\ rules.max_calls_per_day > 0
                  /\ CountOnDate(logs, user_id, IsoDate(t)) >= rules.max_calls_per_day
    IN [allowed |-> ~(perMinute \/ perHour \/ perDay),
        reason |-> IF perDay THEN <<"Daily rate limit exceeded">>
                   ELSE IF perHour THEN <<"Hourly rate limit exceeded">>
                   ELSE IF perMinute THEN <<"Rate limit exceeded">>
                   ELSE <<>>,
        hasFlags |-> TRUE,
        flags |-> (IF perMinute THEN {Flag("rate_limit_exceeded", 1)} ELSE {})
                  \cup (IF perHour THEN {Flag("hourly_limit_exceeded", 1)} ELSE {})
                  \cup (IF perDay THEN {Flag("daily_limit_exceeded", 1)} ELSE {})]

\* `${model_provider}/${model_name}`
ModelKey(provider, model) == <<provider, "/", model>>

applyModelFilter(rules, requestData) ==
    LET modelKey == ModelKey(requestData.model_provider, requestData.model_name)
        notAllowed == rules.allowed_models # {} /\ modelKey \notin rules.allowed_models
        blocked == rules.blocked_models # {} /\ modelKey \in rules.blocked_models
    IN [allowed |-> ~(notAllowed \/ blocked),
        reason |-> IF blocked THEN <<"Model blocked">>
                   ELSE IF notAllowed THEN <<"Model not allowed">>
                   ELSE <<>>,
        hasFlags |-> TRUE,
        flags |-> (IF notAllowed THEN {Flag("model_not_allowed", 1)} ELSE {})
                  \cup (IF blocked THEN {Flag("model_blocked", 1)} ELSE {})]

applyFilter(filter, requestData, p, logs, pricing, t) ==
    CASE filter.filter_type = "content" -> applyContentFilter(filter.rules, requestData)
      [] filter.filter_type = "cost" ->
            applyCostFilter(filter.rules, requestData, p, logs, pricing, t)
      [] filter.filter_type = "rate" -> applyRateFilter(filter.rules, requestData, logs, t)
      [] filter.filter_type = "model" -> applyModelFilter(filter.rules, requestData)
      [] OTHER -> [allowed |-> TRUE, reason |-> <<"Unknown filter type">>,
                   hasFlags |-> FALSE, flags |-> {}]

\* a blocked keyword that is not a string (rules {blocked_keywords: [42]}):
\* line 449, word.toLowerCase(), throws a TypeError on it
NotAWord == <<"#42">>

checkFilters_FailClosed(requestData, filters, p, logs, pricing, t) ==
    LET active == getSafetyFilters(filters)
        throws == \E k \in 1..Len(active) :
                     /\ active[k].filter_type = "content"
                     /\ \E w \in 1..Len(active[k].rules.blocked_keywords) :
                           active[k].rules.blocked_keywords[w] = NotAWord
        result(k) == applyFilter(active[k], requestData, p, logs, pricing, t)
        denying == { k \in 1..Len(active) : ~result(k).allowed }
        Last(name) == CHOOSE k \in 1..Len(active) :
                        /\ active[k].name = name /\ result(k).hasFlags
                        /\ \A j \in 1..Len(active) :
                              (active[j].name = name /\ result(j).hasFlags) => j <= k
        RECURSIVE Reasons(_)
        Reasons(k) ==
            IF k > Len(active) THEN <<>>
            ELSE (IF k \in denying
                  THEN <<[filter |-> active[k].name, reason |-> result(k).reason]>>
                  ELSE <<>>) \o Reasons(k + 1)
    IN IF throws
       THEN [allowed |-> FALSE, reasons |-> <<>>, flags |-> {}, error |-> TRUE]
       ELSE [allowed |-> denying = {},
             reasons |-> Reasons(1),
             flags |-> { [name |-> active[k].name,
                          flags |-> result(Last(active[k].name)).flags] :
                           k \in { j \in 1..Len(active) : result(j).hasFlags } },
             error |-> FALSE]

\* checkFilters: every active filter is applied, in table order; reasons
\* collects the denying filters and flags maps a filter's name to its flags
\* (a later filter of the same name overwrites an earlier one).  An
\* exception in any filter is caught at lines 409-416: the request is
\* allowed, without reasons, with the error flag
checkFilters(requestData, filters, p, logs, pricing, t) ==
    LET active == getSafetyFilters(filters)
        throws == \E k \in 1..Len(active) :
                     /\ active[k].filter_type = "content"
                     /\ \E w \in 1..Len(active[k].rules.blocked_keywords) :
                           active[k].rules.blocked_keywords[w] = NotAWord
        result(k) == applyFilter(active[k], requestData, p, logs, pricing, t)
        denying == { k \in 1..Len(active) : ~result(k).allowed }
        Last(name) == CHOOSE k \in 1..Len(active) :
                        /\ active[k].name = name /\ result(k).hasFlags
                        /\ \A j \in 1..Len(active) :
                              (active[j].name = name /\ result(j).hasFlags) => j <= k
        RECURSIVE Reasons(_)
        Reasons(k) ==
            IF k > Len(active) THEN <<>>
            ELSE (IF k \in denying
                  THEN <<[filter |-> active[k].name, reason |-> result(k).reason]>>
                  ELSE <<>>) \o Reasons(k + 1)
    IN IF throws
       THEN [allowed |-> TRUE, reasons |-> <<>>, flags |-> {}, error |-> TRUE]
       ELSE [allowed |-> denying = {},
             reasons |-> Reasons(1),
             flags |-> { [name |-> active[k].name,
                          flags |-> result(Last(active[k].name)).flags] :
                           k \in { j \in 1..Len(active) : result(j).hasFlags } },
             error |-> FALSE]

\* ------------------------------------------------------------ the state
VARIABLES
    usage_logs,      \* table usage_logs, in insertion order; a row's id is its position
    model_pricing,   \* table model_pricing, in insertion order
    safety_filters,  \* table safety_filters, in insertion order
    clock,           \* the wall clock, in ticks
    handlers,        \* the requests being handled: one record per handler
    clients          \* wss.clients: the readyState of each websocket client

vars == <<usage_logs, model_pricing, safety_filters, clock, handlers, clients>>

Handlers == 1..MaxHandlers
now == TimeAt(clock)

\* ------------------------------------------------------ request inputs
PromptHi == <<"h", "i">>
ResponseOk == <<"H", "i", " ", "t", "h", "e", "r", "e">>
ResponseLong == <<"h", "e", "l", "l", "o", " ", "w", "o", "r", "l", "d">>

NoOptions == [retry_of |-> 0, retry_count |-> 0]

TrackBody(user_id, model_provider, model_name, prompt, api_key) ==
    [user_id |-> user_id, team_id |-> NULL, model_provider |-> model_provider,
     model_name |-> model_name, prompt |-> prompt, api_key |-> api_key,
     options |-> NoOptions]

\* the bodies POST /track receives in this model: the complete ones and, for
\* each required field, one that lacks it
TrackBodies ==
    { TrackBody("u1", provider, "gpt-4", PromptHi, "sk-key") : provider \in {"openai", "acme"} }
    \cup { TrackBody("u1", NULL, "gpt-4", PromptHi, "sk-key"),
           TrackBody("u1", "openai", NULL, PromptHi, "sk-key"),
           TrackBody("u1", "openai", "gpt-4", <<>>, "sk-key"),
           TrackBody("u1", "openai", "gpt-4", PromptHi, NULL) }

\* what the provider's endpoint can answer: a completion (whose text may be
\* null) or an error
SuccessResponses == {ResponseOk, ResponseLong, NullText}
ErrorCauses == {"invalid_api_key"}

\* ------------------------------------------- services/ai-providers.js
PROVIDERS == {"openai", "anthropic", "google"}

AiSuccess(text) == [ok |-> TRUE, response |-> text, message |-> <<>>]
AiError(message) == [ok |-> FALSE, response |-> NullText, message |-> message]

\* makeRequest: the results it can settle with.  An unsupported provider is
\* rejected before any request is sent; an error of the provider's endpoint
\* is rethrown as `${provider} API error: ${error.message}`
makeRequest(provider) ==
    IF provider \notin PROVIDERS
    THEN { AiError(<<"Unsupported provider", provider>>) }
    ELSE { AiSuccess(text) : text \in SuccessResponses }
         \cup { AiError(<<provider, "API error", cause>>) : cause \in ErrorCauses }

\* ------------------------------------------------------- handler records
NoBody == TrackBody(NULL, NULL, NULL, <<>>, NULL)
NoCheck == [allowed |-> TRUE, reasons |-> <<>>, flags |-> {}, error |-> FALSE]
NoFlags == [filters |-> {}, error |-> FALSE, quality_issues |-> <<>>]
NoUsage ==
    [user_id |-> NULL, team_id |-> NULL, model_provider |-> NULL, model_name |-> NULL,
     prompt |-> <<>>, response |-> NullText,
     input_tokens |-> 0, output_tokens |-> 0, total_tokens |-> 0,
     cost_per_input_token |-> 0, cost_per_output_token |-> 0, total_cost |-> 0,
     status |-> "none", error_message |-> <<>>, retry_count |-> 0,
     safety_flags |-> NoFlags, metadata |-> NoOptions]
NoRes ==
    [code |-> 0, error |-> "", reasons |-> <<>>, id |-> 0, response |-> NullText,
     status |-> "none", total_tokens |-> 0, cost |-> 0, safety_flags |-> NoFlags,
     success |-> FALSE, message |-> <<>>, logs |-> <<>>]
NoCalls == [policy |-> 0, pricing |-> 0, provider |-> 0, quality |-> 0, insert |-> 0]

\* the query string of GET /logs; limit and offset default to 100 and 0
NoQuery ==
    [user_id |-> NULL, team_id |-> NULL, start_date |-> <<>>, end_date |-> <<>>,
     model_provider |-> NULL, model_name |-> NULL, status |-> NULL,
     limit |-> 100, offset |-> 0]

\* index.js 18, 40-55: the websocket clients the server knows; a client
\* that is closing stays in wss.clients until its socket is closed
Clients == 1..MaxClients

Idle ==
    [op |-> "idle", pc |-> "idle", id |-> 0, body |-> NoBody, query |-> NoQuery,
     safetyCheck |-> NoCheck,
     usageData |-> NoUsage, ai |-> AiError(<<>>), logId |-> 0, res |-> NoRes,
     calls |-> NoCalls, seen |-> 0, broadcast |-> {}]

\* the handlers are interchangeable: a request that arrives is taken by the
\* first handler that is not busy
Free(h) == handlers[h].pc \in {"idle", "responded"}
Takes(h) == Free(h) /\ \A g \in Handlers : Free(g) => h <= g

ErrorRes(code, error) == [NoRes EXCEPT !.code = code, !.error = error]

\* ----------------------------------------------------------------- Init
\* the state after the first initializeDatabase: the tables hold the
\* default pricing and the default filters, and no request has arrived
Init ==
    /\ usage_logs = <<>>
    /\ model_pricing = [i \in 1..Len(defaultPricing) |-> PricingRow(defaultPricing[i], TimeAt(0))]
    /\ safety_filters = [i \in 1..Len(defaultFilters) |-> FilterRow(defaultFilters[i])]
    /\ clock = 0
    /\ clients = [c \in Clients |-> "NONE"]
    /\ handlers = [h \in Handlers |-> Idle]

\* --------------------------------------------- routes: POST /track
\* the track requests that have passed the policy check and not yet inserted
InFlight ==
    Cardinality({ h \in Handlers :
                    handlers[h].op = "track"
                    /\ handlers[h].pc \in {"pricing", "dispatched", "quality", "outcome"} })

\* the number of active model_pricing rows of a pair
ActiveEntries(pricing, provider, modelName) ==
    Cardinality({ i \in 1..Len(pricing) :
                    /\ pricing[i].provider = provider
                    /\ pricing[i].model_name = modelName
                    /\ pricing[i].is_active })

\* what a getModelPricing call can return: a row index, or 0 for no row
PricingChoice(provider, modelName) ==
    IF getModelPricing(model_pricing, provider, modelName) = {}
    THEN {0}
    ELSE getModelPricing(model_pricing, provider, modelName)

MissingRequired_KeyOptional(body) ==
    \/ body.model_provider = NULL
    \/ body.model_name = NULL
    \/ body.prompt = <<>>

\* line 573: !model_provider || !model_name || !prompt || !api_key
MissingRequired(body) ==
    \/ body.model_provider = NULL
    \/ body.model_name = NULL
    \/ body.prompt = <<>>
    \/ body.api_key = NULL

Denied_Never(safetyCheck) == FALSE

\* line 589: !safetyCheck.allowed
Denied(safetyCheck) == ~safetyCheck.allowed

\* lines 557-594: the request arrives, its required fields are validated and
\* the safety filters are checked; cap bounds the rows the model inserts
TrackReceive(h, body, cap) ==
    /\ Takes(h)
    /\ IF MissingRequired(body)
       THEN handlers' = [handlers EXCEPT ![h] =
                [Idle EXCEPT !.op = "track", !.pc = "responded", !.body = body,
                             !.res = ErrorRes(400, "Missing required fields")]]
       ELSE \E p \in PricingChoice(body.model_provider, body.model_name) :
              LET safetyCheck == checkFilters(body, safety_filters, p, usage_logs,
                                              model_pricing, now)
                  checked == [Idle EXCEPT !.op = "track", !.body = body,
                                          !.safetyCheck = safetyCheck,
                                          !.calls.policy = 1]
              IN IF Denied(safetyCheck)
                 THEN handlers' = [handlers EXCEPT ![h] =
                          [checked EXCEPT !.pc = "responded",
                              !.res = [ErrorRes(403, "Request blocked by safety filters")
                                         EXCEPT !.reasons = safetyCheck.reasons]]]
                 ELSE /\ Len(usage_logs) + InFlight < cap
                      /\ handlers' = [handlers EXCEPT ![h] =
                            [checked EXCEPT !.pc = "pricing"]]
    /\ UNCHANGED <<usage_logs, model_pricing, safety_filters, clock, clients>>

\* lines 596-634: the pricing is looked up, usageData is built and the
\* provider request is sent
TrackPricing(h) ==
    /\ handlers[h].op = "track" /\ handlers[h].pc = "pricing"
    /\ LET body == handlers[h].body
       IN \E p \in PricingChoice(body.model_provider, body.model_name) :
            handlers' = [handlers EXCEPT ![h] =
              [@ EXCEPT !.pc = "dispatched",
                        !.seen = ActiveEntries(model_pricing, body.model_provider,
                                               body.model_name),
                        !.calls.pricing = @ + 1,
                        !.calls.provider = @ + 1,
                        !.usageData =
                          [NoUsage EXCEPT
                             !.user_id = body.user_id,
                             !.team_id = body.team_id,
                             !.model_provider = body.model_provider,
                             !.model_name = body.model_name,
                             !.prompt = body.prompt,
                             !.cost_per_input_token =
                                 IF p = 0 THEN 0
                                 ELSE model_pricing[p].input_cost_per_1k_tokens \div 1000,
                             !.cost_per_output_token =
                                 IF p = 0 THEN 0
                                 ELSE model_pricing[p].output_cost_per_1k_tokens \div 1000,
                             !.status = "processing",
                             !.retry_count = 0,
                             !.safety_flags =
                                 [filters |-> handlers[h].safetyCheck.flags,
                                  error |-> handlers[h].safetyCheck.error,
                                  quality_issues |-> <<>>],
                             !.metadata = body.options]]]
    /\ UNCHANGED <<usage_logs, model_pricing, safety_filters, clock, clients>>

UsageOnSuccess_LivePricing(usageData, aiResponse) ==
    LET inputTokens == countTokens(usageData.prompt, usageData.model_provider)
        outputTokens == countTokens(aiResponse.response, usageData.model_provider)
        rows == getModelPricing(model_pricing, usageData.model_provider, usageData.model_name)
        live == model_pricing[CHOOSE i \in rows : TRUE]
        perInput == IF rows = {} THEN 0 ELSE live.input_cost_per_1k_tokens \div 1000
        perOutput == IF rows = {} THEN 0 ELSE live.output_cost_per_1k_tokens \div 1000
    IN [usageData EXCEPT !.response = aiResponse.response,
                         !.input_tokens = inputTokens,
                         !.output_tokens = outputTokens,
                         !.total_tokens = inputTokens + outputTokens,
                         !.cost_per_input_token = perInput,
                         !.cost_per_output_token = perOutput,
                         !.total_cost = inputTokens * perInput + outputTokens * perOutput,
                         !.status = "success"]

UsageOnSuccess_InputCostOnly(usageData, aiResponse) ==
    LET inputTokens == countTokens(usageData.prompt, usageData.model_provider)
        outputTokens == countTokens(aiResponse.response, usageData.model_provider)
        inputCost == inputTokens * usageData.cost_per_input_token
    IN [usageData EXCEPT !.response = aiResponse.response,
                         !.input_tokens = inputTokens,
                         !.output_tokens = outputTokens,
                         !.total_tokens = inputTokens + outputTokens,
                         !.total_cost = inputCost,
                         !.status = "success"]

\* lines 636-653 of the try block: the usage data after a completion
UsageOnSuccess(usageData, aiResponse) ==
    LET inputTokens == countTokens(usageData.prompt, usageData.model_provider)
        outputTokens == countTokens(aiResponse.response, usageData.model_provider)
        inputCost == inputTokens * usageData.cost_per_input_token
        outputCost == outputTokens * usageData.cost_per_output_token
    IN [usageData EXCEPT !.response = aiResponse.response,
                         !.input_tokens = inputTokens,
                         !.output_tokens = outputTokens,
                         !.total_tokens = inputTokens + outputTokens,
                         !.total_cost = inputCost + outputCost,
                         !.status = "success"]

UsageOnError_StatusKept(usageData, message) ==
    [usageData EXCEPT !.error_message = message]

\* lines 662-667, the catch block
UsageOnError(usageData, message) ==
    [usageData EXCEPT !.status = "failure", !.error_message = message]

\* lines 624-653 / 662-667: makeRequest settles
TrackProviderReturn(h, aiResponse) ==
    /\ handlers[h].op = "track" /\ handlers[h].pc = "dispatched"
    /\ aiResponse \in makeRequest(handlers[h].body.model_provider)
    /\ handlers' = [handlers EXCEPT ![h] =
          IF aiResponse.ok
          THEN [@ EXCEPT !.pc = "quality", !.ai = aiResponse,
                         !.usageData = UsageOnSuccess(@, aiResponse)]
          ELSE [@ EXCEPT !.pc = "outcome", !.ai = aiResponse,
                         !.usageData = UsageOnError(@, aiResponse.message)]]
    /\ UNCHANGED <<usage_logs, model_pricing, safety_filters, clock, clients>>

NullLengthError == <<"TypeError", "Cannot read properties of null (reading 'length')">>

UsageOnQuality_NoEscalation(usageData) == usageData

\* lines 655-660 / 662-667: the quality check of the completion
UsageOnQuality(usageData) ==
    IF checkResponseQualityThrows(usageData.prompt, usageData.response)
    THEN UsageOnError(usageData, NullLengthError)
    ELSE LET qualityCheck == checkResponseQuality(usageData.prompt, usageData.response)
         IN IF Len(qualityCheck) > 0
            THEN [usageData EXCEPT !.status = "hallucination",
                                   !.safety_flags.quality_issues = qualityCheck]
            ELSE usageData

TrackQuality(h) ==
    /\ handlers[h].op = "track" /\ handlers[h].pc = "quality"
    /\ handlers' = [handlers EXCEPT ![h] =
          [@ EXCEPT !.pc = "outcome", !.calls.quality = @ + 1,
                    !.usageData = UsageOnQuality(@)]]
    /\ UNCHANGED <<usage_logs, model_pricing, safety_filters, clock, clients>>

\* JSON.stringify of an object, as the list of its members: a member whose
\* value is absent (undefined) is left out of the text
Member(k, v) == [k |-> k, v |-> v]
stringifyFlags(safety_flags) ==
    (IF safety_flags.filters = {} THEN <<>>
     ELSE <<Member("filters", safety_flags.filters)>>)
    \o (IF safety_flags.error THEN <<Member("error", TRUE)>> ELSE <<>>)
    \o (IF safety_flags.quality_issues = <<>> THEN <<>>
        ELSE <<Member("quality_issues", safety_flags.quality_issues)>>)
stringifyMetadata(metadata) ==
    (IF metadata.retry_of = 0 THEN <<>> ELSE <<Member("retry_of", metadata.retry_of)>>)
    \o (IF metadata.retry_count = 0 THEN <<>>
        ELSE <<Member("retry_count", metadata.retry_count)>>)

UsageRow_StatusDefault(usageData, t) ==
    [user_id |-> usageData.user_id, team_id |-> usageData.team_id,
     model_provider |-> usageData.model_provider, model_name |-> usageData.model_name,
     prompt |-> usageData.prompt, response |-> usageData.response,
     input_tokens |-> usageData.input_tokens, output_tokens |-> usageData.output_tokens,
     total_tokens |-> usageData.total_tokens,
     cost_per_input_token |-> usageData.cost_per_input_token,
     cost_per_output_token |-> usageData.cost_per_output_token,
     total_cost |-> usageData.total_cost,
     status |-> "processing", error_message |-> usageData.error_message,
     retry_count |-> usageData.retry_count,
     safety_flags |-> stringifyFlags(usageData.safety_flags),
     metadata |-> stringifyMetadata(usageData.metadata),
     created_at |-> CURRENT_TIMESTAMP(t)]

\* database.js insertUsageLog: the row written for usageData at instant t
UsageRow(usageData, t) ==
    [user_id |-> usageData.user_id, team_id |-> usageData.team_id,
     model_provider |-> usageData.model_provider, model_name |-> usageData.model_name,
     prompt |-> usageData.prompt, response |-> usageData.response,
     input_tokens |-> usageData.input_tokens, output_tokens |-> usageData.output_tokens,
     total_tokens |-> usageData.total_tokens,
     cost_per_input_token |-> usageData.cost_per_input_token,
     cost_per_output_token |-> usageData.cost_per_output_token,
     total_cost |-> usageData.total_cost,
     status |-> usageData.status, error_message |-> usageData.error_message,
     retry_count |-> usageData.retry_count,
     safety_flags |-> stringifyFlags(usageData.safety_flags),
     metadata |-> stringifyMetadata(usageData.metadata),
     created_at |-> CURRENT_TIMESTAMP(t)]

insertUsageLog_Overwrite(usageData) ==
    IF usage_logs = <<>>
    THEN <<UsageRow(usageData, now)>>
    ELSE [usage_logs EXCEPT ![Len(usage_logs)] = UsageRow(usageData, now)]

\* lines 237-258: INSERT INTO usage_logs
insertUsageLog(usageData) == Append(usage_logs, UsageRow(usageData, now))

TrackPersist_SuccessOnly(h) ==
    /\ handlers[h].op = "track" /\ handlers[h].pc = "outcome"
    /\ IF handlers[h].usageData.status = "failure"
       THEN /\ usage_logs' = usage_logs
            /\ handlers' = [handlers EXCEPT ![h] = [@ EXCEPT !.pc = "persisted"]]
       ELSE /\ usage_logs' = insertUsageLog(handlers[h].usageData)
            /\ handlers' = [handlers EXCEPT ![h] =
                  [@ EXCEPT !.pc = "persisted", !.calls.insert = @ + 1,
                            !.logId = Len(usage_logs) + 1]]
    /\ UNCHANGED <<model_pricing, safety_filters, clock, clients>>

\* lines 669-670: the one insert of the request
TrackPersist(h) ==
    /\ handlers[h].op = "track" /\ handlers[h].pc = "outcome"
    /\ usage_logs' = insertUsageLog(handlers[h].usageData)
    /\ handlers' = [handlers EXCEPT ![h] =
          [@ EXCEPT !.pc = "persisted", !.calls.insert = @ + 1,
                    !.logId = Len(usage_logs) + 1]]
    /\ UNCHANGED <<model_pricing, safety_filters, clock, clients>>

\* lines 685-698: the response
TrackRes(logId, usageData) ==
    [NoRes EXCEPT !.code = 200, !.id = logId, !.response = usageData.response,
                  !.status = usageData.status, !.total_tokens = usageData.total_tokens,
                  !.cost = usageData.total_cost, !.safety_flags = usageData.safety_flags]

\* lines 672-683: usage_update is sent to every client that is open
OpenClients == { c \in Clients : clients[c] = "OPEN" }

TrackRespond_NeedsObserver(h) ==
    /\ handlers[h].op = "track" /\ handlers[h].pc = "persisted"
    /\ handlers' = [handlers EXCEPT ![h] =
          [@ EXCEPT !.pc = "responded", !.broadcast = OpenClients,
                    !.res = IF OpenClients = {}
                            THEN ErrorRes(500, "Failed to track usage")
                            ELSE TrackRes(handlers[h].logId, handlers[h].usageData)]]
    /\ UNCHANGED <<usage_logs, model_pricing, safety_filters, clock, clients>>

\* lines 672-698: the broadcast and the response
TrackRespond(h) ==
    /\ handlers[h].op = "track" /\ handlers[h].pc = "persisted"
    /\ handlers' = [handlers EXCEPT ![h] =
          [@ EXCEPT !.pc = "responded", !.broadcast = OpenClients,
                    !.res = TrackRes(handlers[h].logId, handlers[h].usageData)]]
    /\ UNCHANGED <<usage_logs, model_pricing, safety_filters, clock, clients>>

\* ------------------------------------------- routes: POST /retry/:id
RetryIds == 0..MaxLogs

\* lines 837-840: the request arrives and the original row is queried
RetryReceive(h, id, api_key) ==
    /\ Takes(h)
    /\ handlers' = [handlers EXCEPT ![h] =
          [Idle EXCEPT !.op = "retry", !.pc = "lookup", !.id = id,
                       !.body = [NoBody EXCEPT !.api_key = api_key]]]
    /\ UNCHANGED <<usage_logs, model_pricing, safety_filters, clock, clients>>

\* lines 853-866
retryData(id, originalLog, api_key) ==
    [user_id |-> originalLog.user_id, team_id |-> originalLog.team_id,
     model_provider |-> originalLog.model_provider, model_name |-> originalLog.model_name,
     prompt |-> originalLog.prompt, api_key |-> api_key,
     options |-> [retry_of |-> id, retry_count |-> originalLog.retry_count + 1]]

RetryLookup_AnyStatus(h) ==
    /\ handlers[h].op = "retry" /\ handlers[h].pc = "lookup"
    /\ LET id == handlers[h].id
       IN handlers' = [handlers EXCEPT ![h] =
            IF id \notin 1..Len(usage_logs)
            THEN [@ EXCEPT !.pc = "responded", !.res = ErrorRes(404, "Usage log not found")]
            ELSE [@ EXCEPT !.pc = "lookup",
                           !.body = retryData(id, usage_logs[id], handlers[h].body.api_key)]]
    /\ UNCHANGED <<usage_logs, model_pricing, safety_filters, clock, clients>>

\* lines 843-870: the query answers.  router.handle(req, res) dispatches the
\* request again by its method and url, which are still those of
\* POST /retry/:id, so the handler is entered again with the rebuilt body
RetryLookup(h) ==
    /\ handlers[h].op = "retry" /\ handlers[h].pc = "lookup"
    /\ LET id == handlers[h].id
       IN handlers' = [handlers EXCEPT ![h] =
            IF id \notin 1..Len(usage_logs)
            THEN [@ EXCEPT !.pc = "responded", !.res = ErrorRes(404, "Usage log not found")]
            ELSE IF usage_logs[id].status = "success"
            THEN [@ EXCEPT !.pc = "responded",
                           !.res = ErrorRes(400, "Cannot retry successful request")]
            ELSE [@ EXCEPT !.pc = "lookup",
                           !.body = retryData(id, usage_logs[id], handlers[h].body.api_key)]]
    /\ UNCHANGED <<usage_logs, model_pricing, safety_filters, clock, clients>>

\* ---------------------------------------------- routes: POST /pricing
Undefined == 0 - 1

PricingBodies ==
    { [provider |-> "openai", model_name |-> "gpt-4",
       input_cost |-> 20000000, output_cost |-> 40000000],
      [provider |-> "openai", model_name |-> "gpt-4",
       input_cost |-> Undefined, output_cost |-> 40000000] }

PricingInFlight ==
    Cardinality({ h \in Handlers : handlers[h].op = "pricing" /\ handlers[h].pc = "insert" })

\* UPDATE model_pricing SET is_active = false WHERE provider = ? AND model_name = ?
Deactivate(pricing, provider, modelName) ==
    [i \in 1..Len(pricing) |->
        IF pricing[i].provider = provider /\ pricing[i].model_name = modelName
        THEN [pricing[i] EXCEPT !.is_active = FALSE]
        ELSE pricing[i]]

\* lines 73-87: the request arrives, is validated, and its UPDATE runs
PricingDeactivate(h, body) ==
    /\ Takes(h)
    /\ IF \/ body.provider = NULL \/ body.model_name = NULL
          \/ body.input_cost = Undefined \/ body.output_cost = Undefined
       THEN /\ handlers' = [handlers EXCEPT ![h] =
                 [Idle EXCEPT !.op = "pricing", !.pc = "responded",
                              !.res = ErrorRes(400, "Missing required fields")]]
            /\ UNCHANGED model_pricing
       ELSE /\ Len(model_pricing) + PricingInFlight < MaxPricingRows
            /\ model_pricing' = Deactivate(model_pricing, body.provider, body.model_name)
            /\ handlers' = [handlers EXCEPT ![h] =
                 [Idle EXCEPT !.op = "pricing", !.pc = "insert",
                              !.body = [NoBody EXCEPT !.model_provider = body.provider,
                                                      !.model_name = body.model_name],
                              !.usageData = [NoUsage EXCEPT
                                  !.cost_per_input_token = body.input_cost,
                                  !.cost_per_output_token = body.output_cost]]]
    /\ UNCHANGED <<usage_logs, safety_filters, clock, clients>>

\* lines 89-97: the INSERT runs and the request is answered
PricingInsert(h) ==
    /\ handlers[h].op = "pricing" /\ handlers[h].pc = "insert"
    /\ model_pricing' = Append(model_pricing,
          PricingRow([provider |-> handlers[h].body.model_provider,
                      model_name |-> handlers[h].body.model_name,
                      input_cost |-> handlers[h].usageData.cost_per_input_token,
                      output_cost |-> handlers[h].usageData.cost_per_output_token], now))
    /\ handlers' = [handlers EXCEPT ![h] =
          [@ EXCEPT !.pc = "responded", !.res = [NoRes EXCEPT !.code = 200]]]
    /\ UNCHANGED <<usage_logs, safety_filters, clock, clients>>

\* --------------------------------------- routes: POST /safety-filters
FilterInputs ==
    { [name |-> "Daily Cap", filter_type |-> "rate",
       rules |-> [NoRules EXCEPT !.max_calls_per_day = 1]],
      [name |-> "Blocklist", filter_type |-> "model",
       rules |-> [NoRules EXCEPT !.blocked_models = {ModelKey("acme", "gpt-4")}]] }

\* lines 116-137
CreateSafetyFilter(filterData) ==
    /\ Len(safety_filters) < MaxFilters
    /\ safety_filters' = Append(safety_filters, FilterRow(filterData))
    /\ UNCHANGED <<usage_logs, model_pricing, clock, handlers, clients>>

\* ------------------------------------------------ routes: GET /logs
\* JSON.parse of a text stringify wrote: a member the text lacks reads as
\* absent
HasMember(text, k) == \E i \in 1..Len(text) : text[i].k = k
MemberValue(text, k) == text[CHOOSE i \in 1..Len(text) : text[i].k = k].v
parseFlags(text) ==
    [filters |-> IF HasMember(text, "filters") THEN MemberValue(text, "filters") ELSE {},
     error |-> HasMember(text, "error"),
     quality_issues |-> IF HasMember(text, "quality_issues")
                        THEN MemberValue(text, "quality_issues") ELSE <<>>]
parseMetadata_Empty(text) == [retry_of |-> 0, retry_count |-> 0]

parseMetadata(text) ==
    [retry_of |-> IF HasMember(text, "retry_of") THEN MemberValue(text, "retry_of") ELSE 0,
     retry_count |-> IF HasMember(text, "retry_count")
                     THEN MemberValue(text, "retry_count") ELSE 0]

\* database.js getUsageLogs: the ids of the rows its WHERE clause selects.
\* Only user_id, team_id, start_date and end_date are turned into clauses
SelectedLogs(logs, filters) ==
    { i \in 1..Len(logs) :
        /\ filters.user_id # NULL => logs[i].user_id = filters.user_id
        /\ filters.team_id # NULL => logs[i].team_id = filters.team_id
        /\ filters.start_date # <<>> => TextGE(logs[i].created_at, filters.start_date)
        /\ filters.end_date # <<>> => TextGE(filters.end_date, logs[i].created_at) }

\* ORDER BY created_at DESC: every order of the ids in which created_at
\* does not increase (SQL leaves the order of equal keys open)
NewestFirst(logs, ids) ==
    { order \in [1..Cardinality(ids) -> ids] :
        /\ \A i, j \in 1..Cardinality(ids) : i # j => order[i] # order[j]
        /\ \A i, j \in 1..Cardinality(ids) :
              i < j => TextGE(logs[order[i]].created_at, logs[order[j]].created_at) }

\* LIMIT ? is added when filters.limit is truthy; there is no OFFSET
getUsageLogs(logs, filters) ==
    { IF filters.limit > 0 /\ filters.limit < Len(order)
      THEN SubSeq(order, 1, filters.limit) ELSE order :
        order \in NewestFirst(logs, SelectedLogs(logs, filters)) }

\* lines 743-747: a row as the route returns it
parsedLog(id, log) ==
    [id |-> id,
     log |-> [log EXCEPT !.safety_flags = parseFlags(log.safety_flags),
                         !.metadata = parseMetadata(log.metadata)]]

\* lines 707-754
GetLogs(h, query) ==
    /\ Free(h)
    /\ \E ids \in getUsageLogs(usage_logs, query) :
          handlers' = [handlers EXCEPT ![h] =
              [Idle EXCEPT !.op = "logs", !.pc = "responded", !.query = query,
                           !.res = [NoRes EXCEPT !.code = 200,
                                       !.logs = [k \in 1..Len(ids) |->
                                                   parsedLog(ids[k], usage_logs[ids[k]])]]]]
    /\ UNCHANGED <<usage_logs, model_pricing, safety_filters, clock, clients>>

\* ------------------------------------- routes: PUT /safety-filters/:id
\* lines 140-160: the row is overwritten with the body's fields
UpdateSafetyFilter(id, body) ==
    /\ id \in 1..Len(safety_filters)
    /\ safety_filters' = [safety_filters EXCEPT ![id] =
          [name |-> body.name, filter_type |-> body.filter_type,
           rules |-> body.rules, is_active |-> body.is_active]]
    /\ UNCHANGED <<usage_logs, model_pricing, clock, handlers, clients>>

\* ------------------------------------- routes: POST /test-api-key
\* a provider given as a JSON number
NotAString == "#42"

TestBody(provider, apiKey) == [provider |-> provider, apiKey |-> apiKey]
TestBodies ==
    { TestBody(provider, "sk-key") : provider \in {"openai", "acme", NotAString, NULL} }
    \cup { TestBody("openai", NULL) }

TestRes(success, message) ==
    [NoRes EXCEPT !.code = 200, !.success = success, !.message = message]

\* api.js 163-172 and testApiKey 35-48: the request arrives and, for a
\* supported provider, the test request is sent
TestReceive(h, body) ==
    /\ Takes(h)
    /\ LET asked == [Idle EXCEPT !.op = "test",
                                 !.body = [NoBody EXCEPT !.model_provider = body.provider,
                                                         !.api_key = body.apiKey]]
       IN handlers' = [handlers EXCEPT ![h] =
            IF body.provider = NULL \/ body.apiKey = NULL
            THEN [asked EXCEPT !.pc = "responded",
                               !.res = ErrorRes(400, "Provider and API key are required")]
            ELSE IF body.provider = NotAString
            THEN [asked EXCEPT !.pc = "responded",
                               !.res = TestRes(FALSE, <<"API key test failed",
                                                  "provider.toLowerCase is not a function">>)]
            ELSE IF body.provider \notin PROVIDERS
            THEN [asked EXCEPT !.pc = "responded",
                               !.res = TestRes(FALSE, <<"Unsupported provider">>)]
            ELSE [asked EXCEPT !.pc = "testing", !.calls.provider = 1]]
    /\ UNCHANGED <<usage_logs, model_pricing, safety_filters, clock, clients>>

TestReturn_Metered(h, aiResponse) ==
    /\ handlers[h].op = "test" /\ handlers[h].pc = "testing"
    /\ aiResponse \in makeRequest(handlers[h].body.model_provider)
    /\ handlers' = [handlers EXCEPT ![h] =
          [@ EXCEPT !.pc = "responded", !.ai = aiResponse,
                    !.res = IF aiResponse.ok
                            THEN TestRes(TRUE, <<"API key is valid">>)
                            ELSE TestRes(FALSE, <<"API key test failed">> \o aiResponse.message)]]
    /\ usage_logs' = Append(usage_logs,
          UsageRow([NoUsage EXCEPT !.model_provider = handlers[h].body.model_provider,
                                   !.status = IF aiResponse.ok THEN "success" ELSE "failure"],
                   now))
    /\ UNCHANGED <<model_pricing, safety_filters, clock, clients>>

\* testApiKey 44-64 and api.js 174-178: the test request settles
TestReturn(h, aiResponse) ==
    /\ handlers[h].op = "test" /\ handlers[h].pc = "testing"
    /\ aiResponse \in makeRequest(handlers[h].body.model_provider)
    /\ handlers' = [handlers EXCEPT ![h] =
          [@ EXCEPT !.pc = "responded", !.ai = aiResponse,
                    !.res = IF aiResponse.ok
                            THEN TestRes(TRUE, <<"API key is valid">>)
                            ELSE TestRes(FALSE, <<"API key test failed">> \o aiResponse.message)]]
    /\ UNCHANGED <<usage_logs, model_pricing, safety_filters, clock, clients>>

\* ------------------------------------------------------------- the clock
Tick ==
    /\ clock < MaxClock
    /\ clock' = clock + 1
    /\ UNCHANGED <<usage_logs, model_pricing, safety_filters, handlers, clients>>

\* ------------------------------------------------------ specification
TrackStep(h) ==
    \/ TrackPricing(h)
    \/ \E aiResponse \in makeRequest(handlers[h].body.model_provider) :
          TrackProviderReturn(h, aiResponse)
    \/ TrackQuality(h)
    \/ TrackPersist(h)
    \/ TrackRespond(h)

Next ==
    \/ \E h \in Handlers, body \in TrackBodies : TrackReceive(h, body, MaxLogs)
    \/ \E h \in Handlers : TrackStep(h)
    \/ \E h \in Handlers, id \in RetryIds : RetryReceive(h, id, "sk-key")
    \/ \E h \in Handlers : RetryLookup(h)
    \/ \E h \in Handlers, body \in PricingBodies : PricingDeactivate(h, body)
    \/ \E h \in Handlers : PricingInsert(h)
    \/ \E filterData \in FilterInputs : CreateSafetyFilter(filterData)
    \/ Tick

Spec == Init /\ [][Next]_vars

\* ------------------------------------- the rate filter on its own
\* Scenario C: a rate filter of two calls per minute is active next to the
\* default filters, and track requests are handled one after another
BurstFilter ==
    [name |-> "Burst", filter_type |-> "rate",
     rules |-> [NoRules EXCEPT !.max_calls_per_minute = 2]]

RateBodies ==
    { TrackBody(user_id, "openai", "gpt-4", PromptHi, "sk-key") : user_id \in {"u1", "u2"} }

RateOutcomes == { AiSuccess(ResponseOk), AiError(<<"openai", "API error", "invalid_api_key">>) }

InitRate ==
    /\ usage_logs = <<>>
    /\ model_pricing = [i \in 1..Len(defaultPricing) |-> PricingRow(defaultPricing[i], TimeAt(0))]
    /\ safety_filters = [i \in 1..Len(defaultFilters) |-> FilterRow(defaultFilters[i])]
                         \o <<FilterRow(BurstFilter)>>
    /\ clock = 0
    /\ clients = [c \in Clients |-> "NONE"]
    /\ handlers = [h \in Handlers |-> Idle]

NextRate ==
    \/ \E body \in RateBodies : TrackReceive(1, body, MaxRateLogs)
    \/ TrackPricing(1)
    \/ \E aiResponse \in RateOutcomes : TrackProviderReturn(1, aiResponse)
    \/ TrackQuality(1)
    \/ TrackPersist(1)
    \/ TrackRespond(1)
    \/ Tick

SpecRate == InitRate /\ [][NextRate]_vars

\* ----------------------- tracking and reading, one request at a time
\* Scenario A of the specification and a request for a model that has no
\* pricing row, sent with options
PromptHello == <<"H", "e", "l", "l", "o">>
ScenarioA == TrackBody("u1", "openai", "gpt-3.5-turbo", PromptHello, "sk-key")
OpsBodies ==
    { ScenarioA,
      [TrackBody("u2", "openai", "gpt-5", PromptHi, "sk-key")
          EXCEPT !.options = [retry_of |-> 0, retry_count |-> 1]] }

OpsOutcomes ==
    { AiSuccess(ResponseOk), AiSuccess(ResponseLong),
      AiError(<<"openai", "API error", "invalid_api_key">>) }

LogsQueries ==
    { NoQuery,
      [NoQuery EXCEPT !.status = "failure"],
      [NoQuery EXCEPT !.user_id = "u2"],
      [NoQuery EXCEPT !.limit = 1],
      [NoQuery EXCEPT !.offset = 1] }

\* the body that switches a filter off and leaves its other fields as they are
SwitchedOff(filter) == [filter EXCEPT !.is_active = FALSE]

NextOps ==
    \/ \E body \in OpsBodies : TrackReceive(1, body, MaxOpsLogs)
    \/ TrackPricing(1)
    \/ \E aiResponse \in OpsOutcomes : TrackProviderReturn(1, aiResponse)
    \/ TrackQuality(1)
    \/ TrackPersist(1)
    \/ TrackRespond(1)
    \/ \E query \in LogsQueries : GetLogs(2, query)
    \/ UpdateSafetyFilter(1, SwitchedOff(safety_filters[1]))
    \/ Tick

SpecOps == Init /\ [][NextOps]_vars

\* ------------------------- credentials tested between tracked requests
NextTest ==
    \/ TrackReceive(1, ScenarioA, MaxOpsLogs)
    \/ TrackPricing(1)
    \/ \E aiResponse \in OpsOutcomes : TrackProviderReturn(1, aiResponse)
    \/ TrackQuality(1)
    \/ TrackPersist(1)
    \/ TrackRespond(1)
    \/ \E body \in TestBodies : TestReceive(1, body)
    \/ \E aiResponse \in OpsOutcomes : TestReturn(1, aiResponse)
    \/ Tick

SpecTest == Init /\ [][NextTest]_vars

\* --------------------------- every route that writes, one at a time
ApiOutcomes == { AiSuccess(ResponseOk), AiError(<<"openai", "API error", "invalid_api_key">>) }

NextApi ==
    \/ TrackReceive(1, ScenarioA, MaxOpsLogs)
    \/ TrackPricing(1)
    \/ \E aiResponse \in ApiOutcomes : TrackProviderReturn(1, aiResponse)
    \/ TrackQuality(1)
    \/ TrackPersist(1)
    \/ TrackRespond(1)
    \/ \E id \in RetryIds : RetryReceive(1, id, "sk-key")
    \/ RetryLookup(1)
    \/ \E body \in PricingBodies : PricingDeactivate(1, body)
    \/ PricingInsert(1)
    \/ \E filterData \in FilterInputs : CreateSafetyFilter(filterData)
    \/ UpdateSafetyFilter(1, SwitchedOff(safety_filters[1]))
    \/ GetLogs(2, NoQuery)
    \/ TestReceive(1, TestBody("openai", "sk-key"))
    \/ \E aiResponse \in ApiOutcomes : TestReturn(1, aiResponse)

SpecApi == Init /\ [][NextApi]_vars

\* every handler step that stays possible is eventually taken: a pending
\* query, provider call or callback of the event loop is eventually run
SpecApiFair ==
    /\ SpecApi
    /\ WF_vars(RetryLookup(1))
    /\ WF_vars(TrackPricing(1))
    /\ WF_vars(\E aiResponse \in ApiOutcomes : TrackProviderReturn(1, aiResponse))
    /\ WF_vars(TrackQuality(1))
    /\ WF_vars(TrackPersist(1))
    /\ WF_vars(TrackRespond(1))
    /\ WF_vars(PricingInsert(1))
    /\ WF_vars(\E aiResponse \in ApiOutcomes : TestReturn(1, aiResponse))

\* ------------------------------------------------- server starts
\* the server is stopped and started again on the same database file:
\* requests in flight and websocket connections are gone, the tables are
\* kept (CREATE TABLE IF NOT EXISTS) and insertDefaultData inserts the
\* default pricing rows and the default filters once more
initializeDatabase ==
    /\ Len(model_pricing) <= MaxPricingRows
    /\ Len(safety_filters) <= MaxFilters
    /\ model_pricing' = model_pricing \o
          [i \in 1..Len(defaultPricing) |-> PricingRow(defaultPricing[i], now)]
    /\ safety_filters' = safety_filters \o
          [i \in 1..Len(defaultFilters) |-> FilterRow(defaultFilters[i])]
    /\ handlers' = [h \in Handlers |-> Idle]
    /\ clients' = [c \in Clients |-> "NONE"]
    /\ UNCHANGED <<usage_logs, clock>>

NextStart ==
    \/ initializeDatabase
    \/ \E body \in PricingBodies : PricingDeactivate(1, body)
    \/ PricingInsert(1)
    \/ TrackReceive(1, ScenarioA, MaxLogs)
    \/ TrackPricing(1)
    \/ \E aiResponse \in ApiOutcomes : TrackProviderReturn(1, aiResponse)
    \/ TrackQuality(1)
    \/ TrackPersist(1)
    \/ TrackRespond(1)
    \/ Tick

SpecStart == Init /\ [][NextStart]_vars

\* ------------------------------------------- websocket observers
\* index.js 40: a client connects
Connect(c) ==
    /\ clients[c] = "NONE"
    /\ clients' = [clients EXCEPT ![c] = "OPEN"]
    /\ UNCHANGED <<usage_logs, model_pricing, safety_filters, clock, handlers>>

\* index.js 52: a client starts closing, and its socket closes
Close(c) ==
    /\ clients[c] # "NONE"
    /\ clients' = [clients EXCEPT ![c] = IF @ = "OPEN" THEN "CLOSING" ELSE "NONE"]
    /\ UNCHANGED <<usage_logs, model_pricing, safety_filters, clock, handlers>>

NextNotify ==
    \/ TrackReceive(1, ScenarioA, MaxOpsLogs)
    \/ TrackPricing(1)
    \/ \E aiResponse \in ApiOutcomes : TrackProviderReturn(1, aiResponse)
    \/ TrackQuality(1)
    \/ TrackPersist(1)
    \/ TrackRespond(1)
    \/ \E c \in Clients : Connect(c)
    \/ \E c \in Clients : Close(c)

SpecNotify == Init /\ [][NextNotify]_vars

\* ------------------------------------------------ the policy check
\* a keyword filter created under the name of the default cost filter
\* (safety_filters.name is not unique), a daily cap, a keyword filter one
\* of whose keywords is not a string, and content filters with a keyword
\* and a length limit, with PII blocking and with PII flagging only, and a
\* daily budget of 0.0002 dollars; the second default filter can be turned
\* into a keyword filter; the requests come from user u1 without a team
\* and from user u1 in team t2
PolicyFilters ==
    { [name |-> "Cost Alert", filter_type |-> "content",
       rules |-> [NoRules EXCEPT !.blocked_keywords = <<PromptHi>>]],
      [name |-> "Daily Cap", filter_type |-> "rate",
       rules |-> [NoRules EXCEPT !.max_calls_per_day = 1]],
      [name |-> "Keywords", filter_type |-> "content",
       rules |-> [NoRules EXCEPT !.blocked_keywords = <<PromptHi, NotAWord>>]],
      [name |-> "Content", filter_type |-> "content",
       rules |-> [NoRules EXCEPT !.blocked_keywords = <<PromptHi>>,
                                 !.max_prompt_length = 4]],
      [name |-> "PII", filter_type |-> "content",
       rules |-> [NoRules EXCEPT !.check_pii = TRUE, !.block_pii = TRUE]],
      [name |-> "PII Watch", filter_type |-> "content",
       rules |-> [NoRules EXCEPT !.check_pii = TRUE]],
      [name |-> "Daily Budget", filter_type |-> "cost",
       rules |-> [NoRules EXCEPT !.daily_spending_limit = 200000]] }

PolicyBodies ==
    { ScenarioA } \cup
    { TrackBody("u1", "openai", "gpt-4", prompt, "sk-key") :
        prompt \in { PromptHi, <<"H", "I">>,
                     <<"1", "2", "3", "-", "4", "5", "-", "6", "7", "8", "9">> } }
    \cup { [TrackBody("u1", "openai", "gpt-4", PromptHi, "sk-key") EXCEPT !.team_id = "t2"] }

NextPolicy ==
    \/ \E body \in PolicyBodies : TrackReceive(1, body, MaxLogs)
    \/ TrackPricing(1)
    \/ \E aiResponse \in ApiOutcomes : TrackProviderReturn(1, aiResponse)
    \/ TrackQuality(1)
    \/ TrackPersist(1)
    \/ TrackRespond(1)
    \/ \E filterData \in PolicyFilters : CreateSafetyFilter(filterData)
    \/ UpdateSafetyFilter(2, [safety_filters[2] EXCEPT
                                 !.filter_type = "content",
                                 !.rules = [NoRules EXCEPT !.blocked_keywords = <<PromptHi>>]])

SpecPolicy == Init /\ [][NextPolicy]_vars

\* ------------------------------------------- the token estimators
\* the three estimators of the code applied to a text and a provider; an
\* absent text makes text.split throw a TypeError
Estimators == {"countTokens", "estimateTokenCount", "providerEstimateTokenCount"}

Estimate(estimator, text, provider) ==
    CASE estimator = "countTokens" -> [ok |-> TRUE, n |-> countTokens(text, provider)]
      [] text = NullText -> [ok |-> FALSE, n |-> 0]
      [] estimator = "estimateTokenCount" -> [ok |-> TRUE, n |-> estimateTokenCount(text)]
      [] OTHER -> [ok |-> TRUE, n |-> providerEstimateTokenCount(text, provider)]

EstimateTexts ==
    {NullText} \cup UNION { [1..n -> {"a", " "}] : n \in 0..MaxTextLen }

InitEstimate ==
    /\ usage_logs = <<>>
    /\ model_pricing = <<>>
    /\ safety_filters = <<>>
    /\ clock = 0
    /\ clients = [c \in Clients |-> "NONE"]
    /\ \E text \in EstimateTexts, provider \in {"openai", "anthropic", "google", "acme"} :
          handlers = [h \in Handlers |->
              IF h = 1
              THEN [Idle EXCEPT !.op = "estimate", !.pc = "received",
                                !.body.prompt = text, !.body.model_provider = provider]
              ELSE Idle]

ApplyEstimator(h, estimator) ==
    /\ handlers[h].op = "estimate" /\ handlers[h].pc = "received"
    /\ LET r == Estimate(estimator, handlers[h].body.prompt, handlers[h].body.model_provider)
       IN handlers' = [handlers EXCEPT ![h] =
            [@ EXCEPT !.op = estimator, !.pc = "responded",
                      !.res = IF r.ok THEN [NoRes EXCEPT !.code = 200, !.total_tokens = r.n]
                              ELSE ErrorRes(500, "TypeError")]]
    /\ UNCHANGED <<usage_logs, model_pricing, safety_filters, clock, clients>>

SpecEstimate == InitEstimate /\ [][\E estimator \in Estimators : ApplyEstimator(1, estimator)]_vars

\* ===================================================== the claims
Terminal == {"success", "failure", "hallucination"}
TrackAt(h, pcs) == handlers[h].op = "track" /\ handlers[h].pc \in pcs
HasRow(h) == handlers[h].logId \in 1..Len(usage_logs)
RowOf(h) == usage_logs[handlers[h].logId]

\* C1: a track request the policy engine denies inserts no row, never calls
\* the provider adapter, and is answered 403 with the engine's reasons.
PolicyDenialPersistsNothing ==
    \A h \in Handlers :
        (handlers[h].op = "track" /\ ~handlers[h].safetyCheck.allowed) =>
            /\ handlers[h].pc = "responded"
            /\ handlers[h].res.code = 403
            /\ handlers[h].res.reasons = handlers[h].safetyCheck.reasons
            /\ handlers[h].res.reasons # <<>>
            /\ handlers[h].calls.provider = 0
            /\ handlers[h].calls.insert = 0
            /\ handlers[h].logId = 0

PolicyDenialWitness ==
    \E h \in Handlers :
        /\ handlers[h].op = "track" /\ ~handlers[h].safetyCheck.allowed
        /\ handlers[h].res.code = 403
        /\ usage_logs # <<>>

\* C2: a track request that passes validation and the policy check inserts
\* exactly one row: none while the outcome is open, one, carrying the final
\* status, once the outcome is known, and the response is sent after it.
ExactlyOneInsert ==
    \A h \in Handlers :
        /\ TrackAt(h, {"pricing", "dispatched", "quality", "outcome"}) =>
              /\ handlers[h].calls.insert = 0 /\ handlers[h].logId = 0
              /\ handlers[h].res.code = 0
        /\ TrackAt(h, {"pricing", "dispatched", "quality"}) =>
              handlers[h].usageData.status \notin {"failure", "hallucination"}
        /\ TrackAt(h, {"persisted"}) =>
              /\ handlers[h].calls.insert = 1 /\ HasRow(h)
              /\ RowOf(h).status = handlers[h].usageData.status
              /\ RowOf(h).status \in Terminal
              /\ handlers[h].res.code = 0
        /\ (TrackAt(h, {"responded"}) /\ handlers[h].calls.policy = 1
                                       /\ handlers[h].safetyCheck.allowed) =>
              /\ handlers[h].calls.insert = 1 /\ HasRow(h)
              /\ handlers[h].res.code = 200
              /\ handlers[h].res.id = handlers[h].logId
              /\ RowOf(h).status = handlers[h].res.status

ExactlyOneInsertWitness ==
    \E h \in Handlers :
        /\ TrackAt(h, {"responded"}) /\ handlers[h].res.code = 200
        /\ handlers[h].res.status = "failure"
        /\ Len(usage_logs) = 1

\* C3: a track request that lacks model_provider, model_name, prompt or
\* api_key is answered 400 without a policy check, a provider call or an
\* insert.
MissingFieldRejected ==
    \A h \in Handlers :
        (/\ handlers[h].op = "track"
         /\ \/ handlers[h].body.model_provider = NULL
            \/ handlers[h].body.model_name = NULL
            \/ handlers[h].body.prompt = <<>>
            \/ handlers[h].body.api_key = NULL) =>
            /\ handlers[h].pc = "responded"
            /\ handlers[h].res.code = 400
            /\ handlers[h].calls = NoCalls
            /\ handlers[h].logId = 0

MissingFieldWitness ==
    \E h \in Handlers :
        /\ handlers[h].op = "track" /\ handlers[h].res.code = 400
        /\ handlers[h].body.api_key = NULL
        /\ handlers[h].body.prompt # <<>>

\* C4: when the provider adapter fails, the request still answers 200 with
\* the normal shape, and its one row has status failure, the adapter's
\* message, no response text, no tokens and no cost.
AdapterFailureRecorded ==
    \A h \in Handlers :
        (TrackAt(h, {"persisted", "responded"}) /\ handlers[h].calls.provider = 1
                                                /\ ~handlers[h].ai.ok) =>
            /\ handlers[h].calls.insert = 1 /\ HasRow(h)
            /\ RowOf(h).status = "failure"
            /\ RowOf(h).error_message = handlers[h].ai.message
            /\ RowOf(h).error_message # <<>>
            /\ RowOf(h).response = NullText
            /\ RowOf(h).total_tokens = 0
            /\ RowOf(h).total_cost = 0
            /\ handlers[h].pc = "responded" =>
                  /\ handlers[h].res.code = 200
                  /\ handlers[h].res.status = "failure"
                  /\ handlers[h].res.id = handlers[h].logId
                  /\ handlers[h].res.response = NullText

AdapterFailureWitness ==
    \E h \in Handlers :
        /\ TrackAt(h, {"responded"}) /\ handlers[h].calls.provider = 1
        /\ handlers[h].ai = AiError(<<"openai", "API error", "invalid_api_key">>)
        /\ handlers[h].res.code = 200

\* C5: every row of usage_logs has total_tokens = input_tokens + output_tokens
\* and total_cost = input_tokens * cost_per_input_token
\*                  + output_tokens * cost_per_output_token.
CostArithmetic ==
    \A i \in 1..Len(usage_logs) :
        /\ usage_logs[i].total_tokens
              = usage_logs[i].input_tokens + usage_logs[i].output_tokens
        /\ usage_logs[i].total_cost
              = usage_logs[i].input_tokens * usage_logs[i].cost_per_input_token
                + usage_logs[i].output_tokens * usage_logs[i].cost_per_output_token

CostArithmeticWitness ==
    \E i \in 1..Len(usage_logs) :
        /\ usage_logs[i].status = "hallucination"
        /\ usage_logs[i].input_tokens > 0 /\ usage_logs[i].output_tokens > 0
        /\ usage_logs[i].cost_per_output_token > usage_logs[i].cost_per_input_token
        /\ usage_logs[i].cost_per_input_token > 0

\* C6 as stated: during a track request the status, once it has a terminal
\* value, is not set again.
Busy(h) == handlers[h].op = "track" /\ handlers[h].pc \notin {"idle", "responded"}
StatusSetOnce ==
    [][\A h \in Handlers :
          (Busy(h) /\ handlers[h].usageData.status \in Terminal) =>
              handlers'[h].usageData.status = handlers[h].usageData.status]_vars

\* C6 as amended: before the insert the status of a request moves only
\* processing -> success, processing -> failure, success -> hallucination or
\* success -> failure; the insert writes a terminal status, and after it
\* neither the request's status nor any row's status changes.
StatusMoves ==
    { <<"processing", "success">>, <<"processing", "failure">>,
      <<"success", "hallucination">>, <<"success", "failure">> }
StatusWrittenOnce ==
    [][/\ \A h \in Handlers :
            Busy(h) =>
              \/ handlers'[h].usageData.status = handlers[h].usageData.status
              \/ /\ handlers[h].pc \in {"dispatched", "quality"}
                 /\ <<handlers[h].usageData.status, handlers'[h].usageData.status>>
                        \in StatusMoves
              \/ handlers[h].pc = "pricing" /\ handlers'[h].usageData.status = "processing"
       /\ Len(usage_logs') >= Len(usage_logs)
       /\ \A i \in 1..Len(usage_logs) : usage_logs'[i].status = usage_logs[i].status
       /\ \A i \in 1..Len(usage_logs') : usage_logs'[i].status \in Terminal]_vars

StatusWrittenOnceWitness ==
    \E h \in Handlers :
        /\ TrackAt(h, {"persisted"}) /\ HasRow(h)
        /\ RowOf(h).status = "hallucination"

\* C7: the quality check runs only on a completion, never before dispatch
\* and never on a failed call; when it returns flags the row is a
\* hallucination with the response, the tokens and the cost intact and the
\* flags under safety_flags, and the caller gets the response; when it
\* returns none the row is a success.
QualityAfterSuccess ==
    \A h \in Handlers :
        /\ (handlers[h].op = "track" /\ handlers[h].calls.quality > 0) =>
              /\ handlers[h].calls.quality = 1
              /\ handlers[h].calls.provider = 1
              /\ handlers[h].ai.ok
              /\ handlers[h].pc \in {"outcome", "persisted", "responded"}
        /\ (TrackAt(h, {"persisted", "responded"}) /\ handlers[h].calls.provider = 1
               /\ handlers[h].ai.ok /\ handlers[h].ai.response # NullText) =>
              LET flags == checkResponseQuality(handlers[h].body.prompt,
                                                handlers[h].ai.response)
                  intact == UsageOnSuccess(handlers[h].usageData, handlers[h].ai)
              IN /\ handlers[h].calls.quality = 1 /\ HasRow(h)
                 /\ RowOf(h).status = IF flags # <<>> THEN "hallucination" ELSE "success"
                 /\ parseFlags(RowOf(h).safety_flags).quality_issues = flags
                 /\ RowOf(h).response = handlers[h].ai.response
                 /\ RowOf(h).total_tokens = intact.total_tokens
                 /\ RowOf(h).total_cost = intact.total_cost
                 /\ RowOf(h).total_tokens > 0
                 /\ handlers[h].pc = "responded" =>
                       /\ handlers[h].res.code = 200
                       /\ handlers[h].res.response = handlers[h].ai.response
                       /\ handlers[h].res.status = RowOf(h).status

QualityWitness ==
    \E h \in Handlers :
        /\ TrackAt(h, {"responded"}) /\ handlers[h].res.code = 200
        /\ handlers[h].res.status = "hallucination"
        /\ handlers[h].res.safety_flags.quality_issues = <<"potential_hallucination">>
        /\ handlers[h].res.response = ResponseLong

\* C8: with a rate filter of max_calls_per_minute N active, a track request
\* is admitted only while its user has fewer than N rows created within the
\* trailing minute.
SecondsOf(created_at) ==
    LET d(k) == created_at[k] - 48
    IN ((d(1) * 10 + d(2)) - 1) * SecondsPerDay
       + (d(4) * 10 + d(5)) * 3600 + (d(7) * 10 + d(8)) * 60 + (d(10) * 10 + d(11))

CallsInTrailingMinute(user_id) ==
    Cardinality({ i \in 1..Len(usage_logs) :
                    /\ usage_logs[i].user_id = user_id
                    /\ SecondsOf(usage_logs[i].created_at) >= now - 60 })

RateLimitEnforced ==
    \A h \in Handlers :
        TrackAt(h, {"pricing"}) =>
            \A k \in 1..Len(safety_filters) :
                (/\ safety_filters[k].is_active
                 /\ safety_filters[k].filter_type = "rate"
                 /\ safety_filters[k].rules.max_calls_per_minute > 0) =>
                    CallsInTrailingMinute(handlers[h].body.user_id)
                        < safety_filters[k].rules.max_calls_per_minute

\* C9: no pricing lookup for a pair that has pricing finds zero or two
\* active entries, whatever pricing updates run beside it.
HasPricing(provider, modelName) ==
    \E i \in 1..Len(model_pricing) :
        model_pricing[i].provider = provider /\ model_pricing[i].model_name = modelName

LookupSeesOneActive ==
    \A h \in Handlers :
        (/\ handlers[h].op = "track" /\ handlers[h].calls.pricing = 1
         /\ HasPricing(handlers[h].body.model_provider, handlers[h].body.model_name)) =>
            handlers[h].seen = 1

\* C10: the lookup of a retry rejects an id that has no row with 404 and a
\* row whose status is success with 400; neither checks the policy, calls the
\* provider or writes a row.
RetryRejected ==
    [][\A h \in Handlers :
          (/\ handlers[h].op = "retry" /\ handlers[h].pc = "lookup"
           /\ handlers'[h] # handlers[h]) =>
              LET id == handlers[h].id
                  rejected(code) == /\ handlers'[h].pc = "responded"
                                    /\ handlers'[h].res.code = code
                                    /\ handlers'[h].calls = NoCalls
                                    /\ handlers'[h].logId = 0
                                    /\ usage_logs' = usage_logs
              IN IF id \notin 1..Len(usage_logs) THEN rejected(404)
                 ELSE IF usage_logs[id].status = "success" THEN rejected(400)
                 ELSE handlers'[h].res.code = 0]_vars

RetryRejectedWitness ==
    \E h \in Handlers, g \in Handlers :
        /\ handlers[h].op = "retry" /\ handlers[h].res.code = 400
        /\ handlers[g].op = "retry" /\ handlers[g].res.code = 404

\* C11: the lookup of a retry that finds a row whose status is not success
\* hands the rebuilt request to the track pipeline, as a request that names
\* the original id in options.retry_of and carries retry_count + 1; the row
\* such a run inserts has that retry_count and retry_of, and no row that
\* exists is changed.
RetryIsFreshTrack ==
    [][/\ \A h \in Handlers :
            (/\ handlers[h].op = "retry" /\ handlers[h].pc = "lookup"
             /\ handlers[h].id \in 1..Len(usage_logs)
             /\ usage_logs[handlers[h].id].status # "success"
             /\ handlers'[h] # handlers[h]) =>
                /\ handlers'[h].op = "track"
                /\ handlers'[h].body.options.retry_of = handlers[h].id
                /\ handlers'[h].body.options.retry_count
                      = usage_logs[handlers[h].id].retry_count + 1
       /\ \A i \in 1..Len(usage_logs') :
            IF i <= Len(usage_logs)
            THEN usage_logs'[i] = usage_logs[i]
            ELSE parseMetadata(usage_logs'[i].metadata).retry_of \in 1..Len(usage_logs) =>
                    usage_logs'[i].retry_count
                        = usage_logs[parseMetadata(usage_logs'[i].metadata).retry_of].retry_count + 1]_vars

\* C12: a step of a credential test leaves usage_logs as it is, and a test
\* that names a provider and a key is answered 200 with a message and a
\* success flag, which is true exactly when the provider accepted the key.
CredentialTestFrame ==
    [][\A h \in Handlers :
          (handlers'[h].op = "test" /\ handlers'[h] # handlers[h]) =>
              /\ usage_logs' = usage_logs
              /\ handlers'[h].calls.insert = 0
              /\ (/\ handlers'[h].pc = "responded"
                  /\ handlers'[h].body.model_provider # NULL
                  /\ handlers'[h].body.api_key # NULL) =>
                    /\ handlers'[h].res.code = 200
                    /\ handlers'[h].res.message # <<>>
                    /\ handlers'[h].res.success
                          = (handlers[h].pc = "testing" /\ handlers'[h].ai.ok)]_vars

CredentialTestWitness ==
    \E h \in Handlers :
        /\ handlers[h].op = "test" /\ handlers[h].pc = "responded"
        /\ handlers[h].res.success
        /\ Len(usage_logs) = MaxOpsLogs

\* C13: the answer of GET /logs holds, newest first, exactly the rows that
\* match every supplied filter (user_id, team_id, date range, provider,
\* model, status), cut to the page that limit and offset select.
MatchesQuery(log, query) ==
    /\ query.user_id # NULL => log.user_id = query.user_id
    /\ query.team_id # NULL => log.team_id = query.team_id
    /\ query.start_date # <<>> => TextGE(log.created_at, query.start_date)
    /\ query.end_date # <<>> => TextGE(query.end_date, log.created_at)
    /\ query.model_provider # NULL => log.model_provider = query.model_provider
    /\ query.model_name # NULL => log.model_name = query.model_name
    /\ query.status # NULL => log.status = query.status

LogsReturnMatching ==
    [][\A h \in Handlers :
          (handlers'[h].op = "logs" /\ handlers'[h] # handlers[h]) =>
              LET query == handlers'[h].query
                  returned == handlers'[h].res.logs
                  matching == { i \in 1..Len(usage_logs) : MatchesQuery(usage_logs[i], query) }
                  after == IF Cardinality(matching) > query.offset
                           THEN Cardinality(matching) - query.offset ELSE 0
              IN /\ \A k \in 1..Len(returned) : returned[k].id \in matching
                 /\ \A k, l \in 1..Len(returned) : k # l => returned[k].id # returned[l].id
                 /\ Len(returned) = IF after < query.limit THEN after ELSE query.limit
                 /\ \A k, l \in 1..Len(returned) :
                       k < l => TextGE(returned[k].log.created_at, returned[l].log.created_at)
                 /\ Cardinality({ i \in matching :
                        /\ \A k \in 1..Len(returned) : returned[k].id # i
                        /\ \A k \in 1..Len(returned) :
                              TextGE(usage_logs[i].created_at, returned[k].log.created_at) })
                       >= Cardinality(matching) - after]_vars

\* C14: a track request whose model_provider is not openai, anthropic or
\* google, or whose prompt is not 1..50000 characters long, is answered 400
\* with no provider call and no row written.
SchemaRejects ==
    \A h \in Handlers :
        (/\ handlers[h].op = "track"
         /\ \/ handlers[h].body.model_provider \notin {"openai", "anthropic", "google"}
            \/ Len(handlers[h].body.prompt) \notin 1..50000) =>
            /\ handlers[h].pc = "responded" => handlers[h].res.code = 400
            /\ handlers[h].calls.provider = 0
            /\ handlers[h].calls.insert = 0
            /\ handlers[h].logId = 0

\* C15: no step of any route removes a row of usage_logs or changes a stored
\* row (its prompt, response, status, cost or any other column); the table
\* only grows.
LogsAppendOnly ==
    [][/\ Len(usage_logs') >= Len(usage_logs)
       /\ \A i \in 1..Len(usage_logs) : usage_logs'[i] = usage_logs[i]]_vars

LogsAppendOnlyWitness ==
    /\ Len(usage_logs) = 2
    /\ Len(model_pricing) > Len(defaultPricing)
    /\ \E i \in 1..Len(safety_filters) : ~safety_filters[i].is_active
    /\ handlers[2].op = "logs"

\* C16: a track request whose pricing lookup found no active row is stored
\* with zero per-token costs and a total cost of zero, and the stored
\* safety_flags carry no_pricing_info.
NoPricingFlagged ==
    \A h \in Handlers :
        (/\ handlers[h].op = "track"
         /\ handlers[h].pc \in {"persisted", "responded"}
         /\ handlers[h].logId \in 1..Len(usage_logs)
         /\ handlers[h].seen = 0) =>
            LET log == usage_logs[handlers[h].logId]
            IN /\ log.cost_per_input_token = 0
               /\ log.cost_per_output_token = 0
               /\ log.total_cost = 0
               /\ \E f \in parseFlags(log.safety_flags).filters :
                     Flag("no_pricing_info", 1) \in f.flags

\* C17: a record the track route persisted, read back through GET /logs,
\* has the prompt, the response, the metadata and the safety flags the
\* track route held when it wrote it: what is serialised on write is parsed
\* to the same content on read.
ReadBack(k) ==
    /\ handlers[1].op = "track"
    /\ handlers[1].pc \in {"persisted", "responded"}
    /\ handlers[2].op = "logs" /\ handlers[2].pc = "responded"
    /\ k \in 1..Len(handlers[2].res.logs)
    /\ handlers[2].res.logs[k].id = handlers[1].logId

ScenarioAStored(h) ==
    /\ handlers[h].op = "track"
    /\ handlers[h].pc \in {"persisted", "responded"}
    /\ handlers[h].body = ScenarioA
    /\ handlers[h].usageData.response = ResponseOk
    /\ handlers[h].usageData.cost_per_input_token = 1000
    /\ handlers[h].usageData.cost_per_output_token = 2000
    /\ handlers[h].logId \in 1..Len(usage_logs)

ScenarioARecord ==
    \A h \in Handlers :
        ScenarioAStored(h) =>
            LET log == usage_logs[handlers[h].logId]
            IN /\ log.status = "success"
               /\ log.input_tokens = 2 /\ log.output_tokens = 3
               /\ log.total_tokens = 5
               /\ log.total_cost = 8000

ScenarioARecordWitness == \E h \in Handlers : ScenarioAStored(h)

\* C18 as stated: the total cost of the record is about 0.000011 dollars
\* (11000 nano-dollars, to the nearest 500)
ScenarioACostAsStated ==
    \A h \in Handlers :
        ScenarioAStored(h) =>
            LET log == usage_logs[handlers[h].logId]
            IN /\ log.status = "success"
               /\ log.total_tokens = 5
               /\ log.total_cost \in 10500..11500

\* C19: every estimator, for every text and provider, returns the number of
\* words of the text times the provider's factor (openai 1.3, anthropic 1.2,
\* google 1.1, any other 1.25), rounded up, and 0 for an empty or absent
\* text.
ScaledWordCount(text, provider) ==
    IF text = NullText \/ WordRuns(text) = 0
    THEN 0
    ELSE CASE provider = "openai" -> CeilMul(WordRuns(text), 13, 10)
           [] provider = "anthropic" -> CeilMul(WordRuns(text), 12, 10)
           [] provider = "google" -> CeilMul(WordRuns(text), 11, 10)
           [] OTHER -> CeilMul(WordRuns(text), 125, 100)

EstimateIs(estimator) ==
    \A h \in Handlers :
        (handlers[h].op = estimator /\ handlers[h].pc = "responded") =>
            /\ handlers[h].res.code = 200
            /\ handlers[h].res.total_tokens =
                  ScaledWordCount(handlers[h].body.prompt, handlers[h].body.model_provider)

EveryEstimateIsScaledWordCount == \A estimator \in Estimators : EstimateIs(estimator)

\* C20: when a track request is checked, every active filter is applied:
\* each filter that denies is listed in reasons under its name, and the
\* flags of each filter that produces flags are in the flags of the check,
\* whatever the other filters decided.
PolicyChecked(h) ==
    /\ Free(h)
    /\ handlers'[h] # handlers[h]
    /\ handlers'[h].op = "track"
    /\ handlers'[h].calls.policy = 1
    /\ handlers'[h].pc \in {"pricing", "responded"}

AllFiltersContribute ==
    [][\A h \in Handlers :
         PolicyChecked(h) =>
            LET body == handlers'[h].body
                check == handlers'[h].safetyCheck
                active == getSafetyFilters(safety_filters)
            IN \E p \in PricingChoice(body.model_provider, body.model_name) :
                 \A k \in 1..Len(active) :
                    LET r == applyFilter(active[k], body, p, usage_logs, model_pricing, now)
                    IN /\ ~r.allowed =>
                            \E i \in 1..Len(check.reasons) :
                                check.reasons[i] = [filter |-> active[k].name,
                                                    reason |-> r.reason]
                       /\ r.hasFlags =>
                            \E f \in check.flags :
                                f.name = active[k].name /\ r.flags \subseteq f.flags]_vars

\* C21: a track request whose policy check hit an internal error is not
\* denied: the check answers allowed with the error flag and no reasons,
\* and the request is answered 200 with a stored record that carries the
\* error flag.
PolicyErrorAllows ==
    \A h \in Handlers :
        (handlers[h].op = "track" /\ handlers[h].safetyCheck.error) =>
            /\ handlers[h].safetyCheck.allowed
            /\ handlers[h].pc \in {"persisted", "responded"} =>
                  /\ handlers[h].logId \in 1..Len(usage_logs)
                  /\ parseFlags(usage_logs[handlers[h].logId].safety_flags).error
            /\ handlers[h].pc = "responded" =>
                  /\ handlers[h].res.code = 200
                  /\ handlers[h].res.safety_flags.error

PolicyErrorAllowsWitness ==
    \E h \in Handlers :
        /\ handlers[h].op = "track" /\ handlers[h].safetyCheck.error
        /\ handlers[h].pc = "responded"
        /\ handlers[h].res.id \in 1..Len(usage_logs)

\* C22: when a track request is checked and no filter throws, the request
\* is denied with 403, naming the filter in reasons and writing no record,
\* if some active content filter has a blocked keyword that occurs in the
\* prompt regardless of case, or a maximum length the prompt exceeds, or
\* PII checking and blocking set and a PII pattern matching the prompt; if
\* no content filter is in that case and no filter of another type denies,
\* the request is not denied.
ContentDenies(rules, prompt) ==
    \/ \E w \in 1..Len(rules.blocked_keywords) :
          includes(toLowerCase(prompt), toLowerCase(rules.blocked_keywords[w]))
    \/ rules.max_prompt_length > 0 /\ Len(prompt) > rules.max_prompt_length
    \/ rules.check_pii /\ rules.block_pii /\ piiPatterns(prompt)

ContentFilterDecides ==
    [][\A h \in Handlers :
         (PolicyChecked(h) /\ ~handlers'[h].safetyCheck.error) =>
            LET body == handlers'[h].body
                check == handlers'[h].safetyCheck
                active == getSafetyFilters(safety_filters)
                content == { k \in 1..Len(active) : active[k].filter_type = "content" }
                denying == { k \in content : ContentDenies(active[k].rules, body.prompt) }
            IN /\ \A k \in denying :
                    /\ \E i \in 1..Len(check.reasons) : check.reasons[i].filter = active[k].name
                    /\ handlers'[h].pc = "responded"
                    /\ handlers'[h].res.code = 403
                    /\ handlers'[h].calls.insert = 0
                    /\ handlers'[h].logId = 0
                    /\ usage_logs' = usage_logs
               /\ (/\ denying = {}
                   /\ \E p \in PricingChoice(body.model_provider, body.model_name) :
                        \A k \in (1..Len(active)) \ content :
                           applyFilter(active[k], body, p, usage_logs, model_pricing, now).allowed)
                    => handlers'[h].pc = "pricing"]_vars

ContentFilterDecidesWitness ==
    \E h \in Handlers :
        /\ handlers[h].op = "track" /\ handlers[h].pc = "responded"
        /\ handlers[h].res.code = 403
        /\ handlers[h].body.prompt = <<"H", "I">>
        /\ \E i \in 1..Len(handlers[h].res.reasons) :
              handlers[h].res.reasons[i].filter = "Content"

\* C23: an active cost filter with a daily ceiling (and no per-call
\* ceiling) denies a priced request exactly when today's total_cost of the
\* records of the caller's identity, the pair (user_id, team_id), plus the
\* projected cost of the call exceeds the ceiling.
SpentToday(logs, user_id, team_id, t) ==
    SumCost(logs, { i \in 1..Len(logs) :
                      /\ logs[i].user_id = user_id
                      /\ logs[i].team_id = team_id
                      /\ SqlDate(logs[i].created_at) = IsoDate(t) })

DailyCeilingPerIdentity ==
    [][\A h \in Handlers :
         (PolicyChecked(h) /\ ~handlers'[h].safetyCheck.error) =>
            LET body == handlers'[h].body
                check == handlers'[h].safetyCheck
                active == getSafetyFilters(safety_filters)
            IN \E p \in PricingChoice(body.model_provider, body.model_name) :
                 \A k \in 1..Len(active) :
                    (/\ active[k].filter_type = "cost"
                     /\ active[k].rules.daily_spending_limit > 0
                     /\ active[k].rules.max_cost_per_call = 0
                     /\ p # 0) =>
                        LET projected == (estimateTokenCount(body.prompt)
                                            * model_pricing[p].input_cost_per_1k_tokens) \div 1000
                            spent == SpentToday(usage_logs, body.user_id, body.team_id, now)
                        IN (\E i \in 1..Len(check.reasons) :
                               check.reasons[i].filter = active[k].name)
                           <=> (spent + projected > active[k].rules.daily_spending_limit)]_vars

\* C24: for every prompt the track route lets through (a non-empty text)
\* and every provider, the token count the cost filter projects its cost
\* from equals the count of the route's token counter for that prompt and
\* provider.
FilterCountIsCounterCount ==
    \A h \in Handlers :
        (/\ handlers[h].op = "estimateTokenCount" /\ handlers[h].pc = "responded"
         /\ handlers[h].body.prompt # NullText /\ handlers[h].body.prompt # <<>>) =>
            /\ handlers[h].res.code = 200
            /\ handlers[h].res.total_tokens =
                  countTokens(handlers[h].body.prompt, handlers[h].body.model_provider)

\* C25: the pricing lookup of a track request fixes the request's per-token
\* costs to the prices of an entry active at that moment (zero when there
\* is none); no later step, a pricing update included, changes them; the
\* record is written with them and with the total cost computed from them;
\* and no step changes the costs of a record already written.
AfterLookup == {"dispatched", "quality", "outcome", "persisted"}

PricingSnapshot ==
    [][\A h \in Handlers :
         LET was == handlers[h].usageData
             is == handlers'[h].usageData
         IN /\ (handlers[h].op = "track" /\ handlers[h].pc = "pricing"
                  /\ handlers'[h].pc = "dispatched") =>
                  \E p \in PricingChoice(handlers[h].body.model_provider,
                                         handlers[h].body.model_name) :
                     /\ is.cost_per_input_token =
                          (IF p = 0 THEN 0
                           ELSE model_pricing[p].input_cost_per_1k_tokens \div 1000)
                     /\ is.cost_per_output_token =
                          (IF p = 0 THEN 0
                           ELSE model_pricing[p].output_cost_per_1k_tokens \div 1000)
            /\ (handlers[h].op = "track" /\ handlers[h].pc \in AfterLookup) =>
                  /\ is.cost_per_input_token = was.cost_per_input_token
                  /\ is.cost_per_output_token = was.cost_per_output_token
            /\ (handlers[h].op = "track" /\ handlers[h].pc = "outcome"
                  /\ handlers'[h].pc = "persisted") =>
                  LET log == usage_logs'[handlers'[h].logId]
                  IN /\ log.cost_per_input_token = was.cost_per_input_token
                     /\ log.cost_per_output_token = was.cost_per_output_token
                     /\ log.total_cost =
                          log.input_tokens * was.cost_per_input_token
                            + log.output_tokens * was.cost_per_output_token
            /\ \A i \in 1..Len(usage_logs) :
                  /\ usage_logs'[i].cost_per_input_token = usage_logs[i].cost_per_input_token
                  /\ usage_logs'[i].cost_per_output_token = usage_logs[i].cost_per_output_token
                  /\ usage_logs'[i].total_cost = usage_logs[i].total_cost]_vars

\* a record written at the old prices while the only active entry of its
\* model carries the new ones
PricingSnapshotWitness ==
    \E h \in Handlers :
        /\ handlers[h].op = "track" /\ handlers[h].pc \in {"persisted", "responded"}
        /\ handlers[h].logId \in 1..Len(usage_logs)
        /\ usage_logs[handlers[h].logId].status = "success"
        /\ usage_logs[handlers[h].logId].total_cost > 0
        /\ \E p \in getModelPricing(model_pricing, handlers[h].body.model_provider,
                                    handlers[h].body.model_name) :
              model_pricing[p].input_cost_per_1k_tokens \div 1000
                 # usage_logs[handlers[h].logId].cost_per_input_token

\* C26: usage_update is sent for a request only in the step that follows
\* the insert of its record, to the clients open at that moment; after the
\* insert the request can always be answered, observers or not, and it is
\* answered 200 with the record's id, status, tokens and cost.
BroadcastAfterPersist ==
    \A h \in Handlers :
        handlers[h].op = "track" =>
            /\ handlers[h].broadcast # {} =>
                  /\ handlers[h].pc = "responded"
                  /\ handlers[h].logId \in 1..Len(usage_logs)
            /\ handlers[h].pc = "persisted" => ENABLED TrackRespond(h)
            /\ (handlers[h].pc = "responded" /\ handlers[h].logId > 0) =>
                  LET log == usage_logs[handlers[h].logId]
                  IN /\ handlers[h].res.code = 200
                     /\ handlers[h].res.id = handlers[h].logId
                     /\ handlers[h].res.status = log.status
                     /\ handlers[h].res.total_tokens = log.total_tokens
                     /\ handlers[h].res.cost = log.total_cost

\* answered with the record while no observer was attached, and answered
\* while one was
BroadcastAfterPersistWitness ==
    /\ handlers[1].op = "track" /\ handlers[1].pc = "responded"
    /\ handlers[1].logId = 2
    /\ handlers[1].broadcast = {}
    /\ \A c \in Clients : clients[c] = "NONE"
    /\ Len(usage_logs) = 2

\* C27: when a track request is checked and some active filter, applied on
\* its own, denies it, the check answers allowed = false, whatever the other
\* active filters are.
DenialIsMonotone ==
    [][\A h \in Handlers :
         PolicyChecked(h) =>
            LET body == handlers'[h].body
                active == getSafetyFilters(safety_filters)
                throws(k) == /\ active[k].filter_type = "content"
                             /\ \E w \in 1..Len(active[k].rules.blocked_keywords) :
                                   active[k].rules.blocked_keywords[w] = NotAWord
            IN \E p \in PricingChoice(body.model_provider, body.model_name) :
                 \A k \in 1..Len(active) :
                    (/\ ~throws(k)
                     /\ ~applyFilter(active[k], body, p, usage_logs, model_pricing, now).allowed)
                       => /\ ~handlers'[h].safetyCheck.allowed
                          /\ handlers'[h].res.code = 403]_vars

\* C28: a retry request for a stored record whose status is not success is
\* eventually answered.
RetryCompletes ==
    (/\ handlers[1].op = "retry" /\ handlers[1].pc = "lookup"
     /\ handlers[1].id \in 1..Len(usage_logs)
     /\ usage_logs[handlers[1].id].status # "success")
        ~> (handlers[1].pc = "responded")

\* C29: every (provider, model) pair has at most one pricing entry with
\* is_active = true, after any server starts and pricing updates.
OneActivePerModel ==
    \A i, j \in 1..Len(model_pricing) :
        (/\ model_pricing[i].provider = model_pricing[j].provider
         /\ model_pricing[i].model_name = model_pricing[j].model_name
         /\ model_pricing[i].is_active /\ model_pricing[j].is_active) => i = j

\* C30: every stored record with status failure has no tokens, no cost, no
\* response text and an error message; every stored record with status
\* success or hallucination has no error message.
FailureRecordsAreEmpty ==
    \A i \in 1..Len(usage_logs) :
        /\ usage_logs[i].status = "failure" =>
              /\ usage_logs[i].input_tokens = 0
              /\ usage_logs[i].output_tokens = 0
              /\ usage_logs[i].total_tokens = 0
              /\ usage_logs[i].total_cost = 0
              /\ usage_logs[i].response = NullText
              /\ usage_logs[i].error_message # <<>>
        /\ usage_logs[i].status \in {"success", "hallucination"} =>
              usage_logs[i].error_message = <<>>

====
